---- MODULE Spec2Model ----
(***************************************************************************)
(* State-machine model of the meeting recorder: the recording index kept   *)
(* in AsyncStorage (utils/storage), the Record screen's capture session    *)
(* (app/(tabs)/index.tsx) and the Review screen's audio playback and       *)
(* review workflow (screens/ReviewScreen).                                 *)
(*                                                                         *)
(* Asynchronous functions are modelled at await granularity: one action    *)
(* for the invocation (the synchronous code up to the first awaited call)  *)
(* and one action per awaited call (the call takes effect, its promise     *)
(* settles, the synchronous code up to the next awaited call runs).        *)
(***************************************************************************)
EXTENDS Integers, Sequences, FiniteSets, TLC

\* ------------------------------------------------------------------ bounds
MaxClock == 1
MaxCalls == 3
MaxTaps == 3
MaxPlayTaps == 4
MaxReviewTaps == 4

\* ------------------------------------------------------------ plain values
\* A JavaScript value that may be undefined, or absent from a JSON text: a tag
\* and, for an array or an object, what it holds.
Undefined == [k |-> "undefined", v |-> <<>>]
Absent == [k |-> "absent", v |-> <<>>]
Arr(items) == [k |-> "array", v |-> items]
Obj(fullText) == [k |-> "object", v |-> <<fullText>>]

\* What AsyncStorage.getItem can yield: null for a missing key, a text that is
\* not JSON, the JSON text of an array of records, or a rejection.
NoBlob == [kind |-> "null", json |-> <<>>]
Corrupt == [kind |-> "corrupt", json |-> <<>>]
ReadFailed == [kind |-> "rejected", json |-> <<>>]

VARIABLES
    clock,      \* the latest reading of Date.now(), in milliseconds
    blob,       \* the string stored under RECORDINGS_KEY
    files,      \* the locators of the files that exist
    ops,        \* the storage calls in flight, one per slot
    calls,      \* number of storage calls made so far
    returned,   \* the records saveRecording has returned
    last,       \* what the storage call that settled last saw, until the next call
    clean       \* no call has overlapped another, failed or deleted so far

storeVars == <<clock, blob, files, ops, calls, returned, last, clean>>

\* The Record screen (app/(tabs)/index.tsx).
VARIABLES
    recording,              \* state: the Audio.Recording in use, 0 for null
    recordingStartTimeMs,   \* state: "null" or "set" (only its nullness is read)
    isLoading,              \* state: the busy flag
    handles,                \* every Audio.Recording created: how far it got
    recorderExists,         \* expo-av: a recorder is prepared and not unloaded
    interval,               \* the intervals of the timer effect that are running
    alerts,                 \* how often each Alert has been shown
    procs,                  \* the start() and stop() calls in flight
    taps,                   \* presses of the start/stop button so far
    probes,                 \* Audio.Sound objects stop() has loaded and not unloaded
    navs,                   \* the navigation.navigate('Review', ...) calls made
    lastProc                \* the start() or stop() that settled last, until the next press

recVars ==
    <<recording, recordingStartTimeMs, isLoading, handles, recorderExists,
      interval, alerts, procs, taps, probes, navs, lastProc>>

VARIABLES
    mounted,       \* whether a Review screen is on the stack
    instance,      \* which Review screen it is, counting the ones opened
    audioUri,      \* Review: the audioUri of route.params
    sound,         \* Review: the sound state, 0 for null
    effectSound,   \* Review: sound as seen by the cleanup of the last run of
                   \* the [audioUri] effect
    isPlaying,     \* Review: the isPlaying state
    audioProgress, \* Review: the audioProgress state
    sounds,        \* the Audio.Sound objects created so far
    plays,         \* Review: the asynchronous calls in flight, one per slot
    playTaps,      \* number of presses, navigations and ticks so far
    playAlerts,    \* Review: number of alerts shown, by title
    lastPlay,      \* the Review call that settled last
    polling        \* Review: the intervals of the progress effect that are running

playVars ==
    <<mounted, instance, audioUri, sound, effectSound, isPlaying,
      audioProgress, sounds, plays, playTaps, playAlerts, lastPlay, polling>>

VARIABLES
    audioDuration,        \* Review: the audioDuration of route.params
    currentServerResult,  \* Review: the currentServerResult state
    showTitleInput,       \* Review: the showTitleInput state
    reviewIsLoading,      \* Review: the isLoading state
    actionablePoints,     \* Review: the actionablePoints state
    isLoadingActionable,  \* Review: the isLoadingActionable state
    pendingOK,            \* 'Success' alerts of handleSave awaiting their OK
    reviewAlerts,         \* Review: number of alerts shown, by title
    revs,                 \* Review: the uploads and extractions in flight
    revTaps,              \* number of presses on the Review screen so far
    lastExtract           \* the extraction that settled last

VARIABLES
    serverResult,  \* Review: the serverResult of route.params
    confirm,       \* Review: the 'Delete Actionable Point' alert, while shown
    lastDelete,    \* the deletion of a point that was confirmed last
    lastSave,      \* the alert handleSave showed for the saveRecording that
                   \* settled last
    hist           \* History: the handlePlayRecording in flight, and the record
                   \* the Review screen was opened with last

pointVars == <<serverResult, confirm, lastDelete, lastSave, hist>>

revVars ==
    <<audioDuration, currentServerResult, showTitleInput, reviewIsLoading,
      actionablePoints, isLoadingActionable, pendingOK, reviewAlerts, revs,
      revTaps, lastExtract, pointVars>>

VARIABLES
    userStats      \* the user's row of user_recording_stats

statVars == <<userStats>>

VARIABLES
    race           \* history of the overlapping writes of the collection

raceVars == <<race>>

vars == <<storeVars, recVars, playVars, revVars, statVars, raceVars>>

\* Two storage calls can be in flight at once.
Slots == {1, 2}

\* ------------------------------------------------------------ conversions
\* Number.prototype.toString: the decimal digits of a non-negative integer.
RECURSIVE Digits(_)
Digits(n) == IF n < 10 THEN <<n>> ELSE Append(Digits(n \div 10), n % 10)

NumberToString(n) == Digits(n)

\* `${FileSystem.documentDirectory}recording_${Date.now()}.m4a`
PermanentUri(now) == <<"recording", now>>

\* Date.prototype.toISOString, and the way back, new Date(s).getTime().
ToISOString(ms) == [iso |-> ms]

GetTime(s) == s.iso

\* JSON.stringify of one record: a key whose value is undefined is left out.
StringifyField(v) == IF v = Undefined THEN Absent ELSE v

StringifyRecord(r) ==
    [id |-> r.id, createdAt |-> r.createdAt, title |-> r.title,
     audioUri |-> r.audioUri, audioDuration |-> r.audioDuration,
     transcription |-> StringifyField(r.transcription),
     actionablePoints |-> StringifyField(r.actionablePoints)]

JSONstringify(recs) == [kind |-> "json", json |-> [i \in 1..Len(recs) |-> StringifyRecord(recs[i])]]

\* Reading a key the text does not hold yields undefined.
ParseField(v) == IF v = Absent THEN Undefined ELSE v

ParseRecord(o) ==
    [id |-> o.id, createdAt |-> o.createdAt, title |-> o.title,
     audioUri |-> o.audioUri, audioDuration |-> o.audioDuration,
     transcription |-> ParseField(o.transcription),
     actionablePoints |-> ParseField(o.actionablePoints)]

\* JSON.parse throws on a text that is not JSON.
Parseable(text) == text.kind = "json"

JSONparse(text) == [i \in 1..Len(text.json) |-> ParseRecord(text.json[i])]

\* ---------------------------------------------------------------- sorting
\* Array.prototype.sort with the comparator of getRecordings,
\* (a, b) => getTime(b.createdAt) - getTime(a.createdAt): a stable sort,
\* most recent first.
RECURSIVE InsertSorted(_, _)
InsertSorted(r, s) ==
    IF s = <<>> THEN <<r>>
    ELSE IF GetTime(Head(s).createdAt) - GetTime(r.createdAt) < 0
         THEN <<r>> \o s
         ELSE <<Head(s)>> \o InsertSorted(r, Tail(s))

RECURSIVE SortRecordingsFrom(_, _)
SortRecordingsFrom(s, acc) ==
    IF s = <<>> THEN acc
    ELSE SortRecordingsFrom(Tail(s), InsertSorted(Head(s), acc))

\* A getRecordings that returns the parsed array as stored, unsorted.
SortRecordings_Unsorted(s) == s

SortRecordings(s) == SortRecordingsFrom(s, <<>>)

\* ---------------------------------------------------------- getRecordings
\* What getRecordings returns for one outcome of AsyncStorage.getItem: the
\* catch turns a rejected read and a JSON.parse error into [].
GetRecordingsResult(read) ==
    IF read = ReadFailed THEN <<>>
    ELSE IF read = NoBlob THEN <<>>
    ELSE IF read = Corrupt THEN <<>>
    ELSE SortRecordings(JSONparse(read))

\* A getRecordings whose JSON.parse sits outside the try.
GetRecordingsThrows_ParseOutsideTry(read) == read.kind = "corrupt"

\* getRecordings never rejects: every path ends in a return.
GetRecordingsThrows(read) == FALSE

\* ------------------------------------------------------- storage calls
\* A slot of ops holds one call of saveRecording, getRecordings or
\* deleteRecording between its invocation and its settling.  rec, id and list
\* are the call's locals.  The other fields only record history: pre is the
\* stored text when deleteRecording was called, alone whether no other call was in
\* flight with it, readKind the outcome of its read, fileFailed whether its
\* file delete was rejected, removed whether its file delete removed a file;
\* for saveRecording, pre is the text it read,
\* writes the number of its writes that were carried out, and prepended
\* whether its write stored its record followed by the records of that text.
IdleOp ==
    [kind |-> "idle", pc |-> "idle", rec |-> <<>>, id |-> <<>>, list |-> <<>>,
     pre |-> NoBlob, alone |-> TRUE, readKind |-> "none", fileFailed |-> FALSE,
     key |-> <<>>, points |-> <<>>, writes |-> 0, prepended |-> FALSE,
     removed |-> FALSE]

NoCall ==
    [kind |-> "none", threw |-> FALSE, result |-> <<>>, readKind |-> "none",
     id |-> <<>>, pre |-> NoBlob, alone |-> TRUE, fileFailed |-> FALSE,
     writes |-> 0, prepended |-> FALSE]

Idle(s) == ops[s].kind = "idle"

OthersIdle(s) == \A t \in Slots \ {s} : Idle(t)

\* Invoking a call in slot s, the first free one: every call already in
\* flight now overlaps one.
Invoke(s, op) ==
    /\ Idle(s)
    /\ \A t \in Slots : t < s => ~Idle(t)
    /\ calls < MaxCalls
    /\ calls' = calls + 1
    /\ last' = NoCall
    /\ ops' = [t \in Slots |->
                 IF t = s THEN [op EXCEPT !.alone = OthersIdle(s)]
                 ELSE IF Idle(t) THEN ops[t]
                 ELSE [ops[t] EXCEPT !.alone = FALSE]]

\* The call in slot s settles: the slot is free again and, until the next
\* call is made, last holds what the call was and what it saw.
Settle(s, threw, result, readKind) ==
    /\ ops' = [ops EXCEPT ![s] = IdleOp]
    /\ last' = [kind |-> ops[s].kind, threw |-> threw, result |-> result,
                readKind |-> readKind, id |-> ops[s].id, pre |-> ops[s].pre,
                alone |-> ops[s].alone, fileFailed |-> ops[s].fileFailed,
                writes |-> ops[s].writes, prepended |-> ops[s].prepended]

\* The same, for a call that settles as its write is carried out.
SettleWritten(s, threw, result, readKind) ==
    /\ ops' = [ops EXCEPT ![s] = IdleOp]
    /\ last' = [kind |-> ops[s].kind, threw |-> threw, result |-> result,
                readKind |-> readKind, id |-> ops[s].id, pre |-> ops[s].pre,
                alone |-> ops[s].alone, fileFailed |-> ops[s].fileFailed,
                writes |-> ops[s].writes + 1, prepended |-> ops[s].prepended]

\* The outcomes of one AsyncStorage.getItem: the stored text, or a rejection.
ReadOutcomes == {blob, ReadFailed}

\* saveRecording, lines 327-339: id and createdAt are taken from the clock,
\* the record is built, and the stored text is requested.  now is what
\* Date.now() reads: time may or may not have moved on since the last reading.
NewRecording(fields, now) ==
    [id |-> NumberToString(now), createdAt |-> ToISOString(now),
     title |-> fields.title, audioUri |-> fields.audioUri,
     audioDuration |-> fields.audioDuration,
     transcription |-> fields.transcription,
     actionablePoints |-> fields.actionablePoints]

Readings == {t \in {clock, clock + 1} : t <= MaxClock}

saveRecording_call(s, fields, now) ==
    /\ now \in Readings
    /\ clock' = now
    /\ Invoke(s, [IdleOp EXCEPT !.kind = "save", !.pc = "getItem",
                                !.rec = <<NewRecording(fields, now)>>])
    /\ clean' = (clean /\ OthersIdle(s))
    /\ UNCHANGED <<blob, files, returned>>

\* lines 339-357: the read settles; a rejection or a text that does not parse
\* is rethrown by the catch, otherwise the new record is put in front of the
\* stored ones and the write is requested.
\* A saveRecording that puts the new record behind the stored ones.
UpdatedRecordings_Append(rec, read) ==
    IF read.kind = "null" THEN <<rec>> ELSE JSONparse(read) \o <<rec>>

UpdatedRecordings(rec, read) ==
    IF read.kind = "null" THEN <<rec>> ELSE <<rec>> \o JSONparse(read)

\* The records of a text that was read, none for a missing key.
Previous(read) == IF read.kind = "json" THEN JSONparse(read) ELSE <<>>

saveRecording_getItem(s) ==
    /\ ops[s].kind = "save" /\ ops[s].pc = "getItem"
    /\ \E read \in ReadOutcomes :
         \/ /\ read.kind \in {"rejected", "corrupt"}
            /\ Settle(s, TRUE, <<>>, read.kind)
            /\ clean' = FALSE
         \/ /\ read.kind \in {"null", "json"}
            /\ ops' = [ops EXCEPT ![s].pc = "setItem",
                                  ![s].readKind = read.kind,
                                  ![s].pre = read,
                                  ![s].list = UpdatedRecordings(ops[s].rec[1], read)]
            /\ UNCHANGED <<last, clean>>
    /\ UNCHANGED <<clock, blob, files, calls, returned>>

\* lines 357-360: the write settles; a rejection is rethrown, otherwise the
\* whole collection is stored and the verification read is requested.
saveRecording_setItem(s) ==
    /\ ops[s].kind = "save" /\ ops[s].pc = "setItem"
    /\ \/ /\ Settle(s, TRUE, <<>>, ops[s].readKind)
          /\ clean' = FALSE
          /\ UNCHANGED blob
       \/ /\ blob' = JSONstringify(ops[s].list)
          /\ ops' = [ops EXCEPT
                       ![s].pc = "verify",
                       ![s].writes = @ + 1,
                       ![s].prepended =
                           blob' = JSONstringify(<<ops[s].rec[1]>> \o Previous(ops[s].pre))]
          /\ UNCHANGED <<last, clean>>
    /\ UNCHANGED <<clock, files, calls, returned>>

\* lines 360-364: the verification read settles; a rejection is rethrown,
\* otherwise the record is returned.
saveRecording_verify(s) ==
    /\ ops[s].kind = "save" /\ ops[s].pc = "verify"
    /\ \E read \in ReadOutcomes :
         \/ /\ read.kind = "rejected"
            /\ Settle(s, TRUE, <<>>, read.kind)
            /\ clean' = FALSE
            /\ UNCHANGED returned
         \/ /\ read.kind # "rejected"
            /\ Settle(s, FALSE, ops[s].rec, ops[s].readKind)
            /\ returned' = returned \cup {ops[s].rec[1]}
            /\ UNCHANGED clean
    /\ UNCHANGED <<clock, blob, files, calls>>

\* getRecordings, lines 372-396.
getRecordings_call(s) ==
    /\ Invoke(s, [IdleOp EXCEPT !.kind = "get", !.pc = "getItem"])
    /\ clean' = (clean /\ OthersIdle(s))
    /\ UNCHANGED <<clock, blob, files, returned>>

getRecordings_getItem(s) ==
    /\ ops[s].kind = "get" /\ ops[s].pc = "getItem"
    /\ \E read \in ReadOutcomes :
         /\ Settle(s, GetRecordingsThrows(read), GetRecordingsResult(read),
                   read.kind)
         /\ clean' = (clean /\ read.kind # "rejected")
    /\ UNCHANGED <<clock, blob, files, calls, returned>>

\* deleteRecording, lines 399-402: getRecordings is awaited first.
deleteRecording_call(s, id) ==
    /\ Invoke(s, [IdleOp EXCEPT !.kind = "delete", !.pc = "getRecordings",
                                !.id = id, !.pre = blob])
    /\ clean' = FALSE
    /\ UNCHANGED <<clock, blob, files, returned>>

\* recordings.find(r => r.id === id): the first match, if any.
FindById(recordings, id) ==
    LET hits == {i \in 1..Len(recordings) : recordings[i].id = id}
    IN  IF hits = {} THEN <<>>
        ELSE <<recordings[CHOOSE i \in hits : \A j \in hits : i <= j]>>

\* A deleteRecording that stores the list it read as it is.
FilterOutId_KeepAll(recordings, id) == recordings

\* recordings.filter(r => r.id !== id)
FilterOutId(recordings, id) == SelectSeq(recordings, LAMBDA r : r.id # id)

\* lines 401-407: getRecordings settles (never rejecting); with a match the
\* file delete is requested, without one the write is.
deleteRecording_getRecordings(s) ==
    /\ ops[s].kind = "delete" /\ ops[s].pc = "getRecordings"
    /\ \E read \in ReadOutcomes :
         LET recordings == GetRecordingsResult(read)
             recordingToDelete == FindById(recordings, ops[s].id)
         IN  ops' = [ops EXCEPT
                       ![s].list = recordings,
                       ![s].rec = recordingToDelete,
                       ![s].readKind = read.kind,
                       ![s].pc = IF recordingToDelete # <<>> THEN "deleteAsync"
                                 ELSE "setItem"]
    /\ UNCHANGED <<clock, blob, files, calls, returned, last, clean>>

\* lines 406-416: FileSystem.deleteAsync settles; a rejection is caught and
\* only logged.  Then the write is requested.
deleteRecording_deleteAsync(s) ==
    /\ ops[s].kind = "delete" /\ ops[s].pc = "deleteAsync"
    /\ \/ /\ files' = files \ {ops[s].rec[1].audioUri}
          /\ ops' = [ops EXCEPT ![s].pc = "setItem",
                                ![s].removed = (ops[s].rec[1].audioUri \in files)]
       \/ /\ UNCHANGED files
          /\ ops' = [ops EXCEPT ![s].pc = "setItem", ![s].fileFailed = TRUE]
    /\ UNCHANGED <<clock, blob, calls, returned, last, clean>>

\* lines 415-422: the write of the filtered collection settles; a rejection
\* is rethrown.
deleteRecording_setItem(s) ==
    /\ ops[s].kind = "delete" /\ ops[s].pc = "setItem"
    /\ \/ /\ Settle(s, TRUE, <<>>, ops[s].readKind)
          /\ UNCHANGED blob
       \/ /\ blob' = JSONstringify(FilterOutId(ops[s].list, ops[s].id))
          /\ SettleWritten(s, FALSE, <<>>, ops[s].readKind)
    /\ UNCHANGED <<clock, files, calls, returned, clean>>

\* ------------------------------------------- the recording index alone
\* The callers of utils/storage pass whatever the screens hold; here the
\* fields are drawn from a small set.
AudioUris == {PermanentUri(0), PermanentUri(1)}

StoreFields ==
    [title : {"t"}, audioUri : AudioUris, audioDuration : {1000},
     transcription : {Undefined}, actionablePoints : {Undefined}]

StoreIds == {NumberToString(c) : c \in 0..MaxClock}

\* The key may be missing or, after outside damage, hold a text that is not
\* JSON; the program itself only ever stores the JSON of an array.
InitStore ==
    /\ clock = 0
    /\ blob \in {NoBlob, Corrupt}
    /\ files = AudioUris
    /\ ops = [s \in Slots |-> IdleOp]
    /\ calls = 0
    /\ returned = {}
    /\ last = NoCall
    /\ clean = (blob = NoBlob)

\* ------------------------------------------------------ Record screen
\* The Audio.Recording objects are numbered in the order of their creation;
\* each records into its own temporary file.
HandleIds == 1..MaxTaps

TempUris == [h \in HandleIds |-> <<"tmp", h>>]

AlertTitles == {"Microphone Required", "Start Failed", "Stop Failed"}

ProcSlots == {1, 2}

\* One call of start() or stop() between the press and its settling: rec is
\* the Audio.Recording it works on, tempUri, permanentUri and duration are
\* stop()'s locals, canRecord whether the Recording could still record when
\* stopAndUnloadAsync was called on it.  alone and failed only record
\* history: whether no other call was in flight with it, and the awaited
\* call that was rejected.
IdleProc ==
    [kind |-> "idle", pc |-> "idle", rec |-> 0, tempUri |-> <<>>,
     permanentUri |-> <<>>, duration |-> 0, canRecord |-> FALSE,
     alone |-> TRUE, failed |-> "none"]

NoProc ==
    [kind |-> "none", rec |-> 0, alone |-> TRUE, failed |-> "none",
     navigated |-> FALSE]

ProcIdle(p) == procs[p].kind = "idle"

OtherProcsIdle(p) == \A q \in ProcSlots \ {p} : ProcIdle(q)

\* Alert.alert(title, ...)
Alert(title) == alerts' = [alerts EXCEPT ![title] = @ + 1]

\* The timer effect, lines 35-49, runs when recording or recordingStartTimeMs
\* changes: its cleanup clears the interval it holds, and it sets a new one
\* when both are set.
TimerEffect(newRecording, newStartTimeMs) ==
    IF newRecording = recording /\ newStartTimeMs = recordingStartTimeMs
    THEN interval
    ELSE interval
            - (IF recording # 0 /\ recordingStartTimeMs # "null" THEN 1 ELSE 0)
            + (IF newRecording # 0 /\ newStartTimeMs # "null" THEN 1 ELSE 0)

\* A press of the button runs its handler in procs[p], the first free slot.
Press(p, proc) ==
    /\ ProcIdle(p)
    /\ \A q \in ProcSlots : q < p => ~ProcIdle(q)
    /\ taps < MaxTaps
    /\ taps' = taps + 1
    /\ lastProc' = NoProc
    /\ procs' = [q \in ProcSlots |->
                   IF q = p THEN [proc EXCEPT !.alone = OtherProcsIdle(p)]
                   ELSE IF ProcIdle(q) THEN procs[q]
                   ELSE [procs[q] EXCEPT !.alone = FALSE]]

\* The handler in procs[p] settles.
Finish(p, failed, navigated) ==
    /\ procs' = [procs EXCEPT ![p] = IdleProc]
    /\ lastProc' = [kind |-> procs[p].kind, rec |-> procs[p].rec,
                    alone |-> procs[p].alone, failed |-> failed,
                    navigated |-> navigated]

\* start(), line 241 and lines 61-63: the button calls start while recording
\* is null; the permission request is awaited.
start_call(p) ==
    /\ recording = 0
    /\ Press(p, [IdleProc EXCEPT !.kind = "start", !.pc = "permission"])
    /\ UNCHANGED <<recording, recordingStartTimeMs, isLoading, handles,
                   recorderExists, interval, alerts, probes, navs>>
    /\ UNCHANGED <<clock, files>>

\* A version that creates its Recording before it looks at the answer.
start_permission_CreatesFirst(p) ==
    /\ procs[p].kind = "start" /\ procs[p].pc = "permission"
    /\ \/ /\ Alert("Microphone Required")
          /\ Finish(p, "denied", FALSE)
          /\ handles' = [handles EXCEPT
                            ![CHOOSE h \in HandleIds : handles[h] = "none"] = "created"]
       \/ /\ Alert("Start Failed")
          /\ Finish(p, "permission", FALSE)
          /\ UNCHANGED handles
       \/ /\ procs' = [procs EXCEPT ![p].pc = "audioMode"]
          /\ UNCHANGED <<alerts, lastProc, handles>>
    /\ UNCHANGED <<recording, recordingStartTimeMs, isLoading,
                   recorderExists, interval, taps, probes, navs>>
    /\ UNCHANGED <<clock, files>>

\* lines 63-66: the permission request settles: refused, rejected or granted.
start_permission(p) ==
    /\ procs[p].kind = "start" /\ procs[p].pc = "permission"
    /\ \/ /\ Alert("Microphone Required")
          /\ Finish(p, "denied", FALSE)
       \/ /\ Alert("Start Failed")
          /\ Finish(p, "permission", FALSE)
       \/ /\ procs' = [procs EXCEPT ![p].pc = "audioMode"]
          /\ UNCHANGED <<alerts, lastProc>>
    /\ UNCHANGED <<recording, recordingStartTimeMs, isLoading, handles,
                   recorderExists, interval, taps, probes, navs>>
    /\ UNCHANGED <<clock, files>>

\* The next Audio.Recording to be created.
NewHandle == CHOOSE h \in HandleIds : handles[h] = "none" /\ \A g \in HandleIds : g < h => handles[g] # "none"

\* lines 66-69: setAudioModeAsync settles; then a Recording is created and
\* prepareToRecordAsync is called, which expo-av rejects at once while another
\* recorder is prepared.
start_audioMode(p) ==
    /\ procs[p].kind = "start" /\ procs[p].pc = "audioMode"
    /\ \/ /\ Alert("Start Failed")
          /\ Finish(p, "audioMode", FALSE)
          /\ UNCHANGED handles
       \/ /\ recorderExists
          /\ handles' = [handles EXCEPT ![NewHandle] = "created"]
          /\ Alert("Start Failed")
          /\ Finish(p, "prepare", FALSE)
       \/ /\ ~recorderExists
          /\ handles' = [handles EXCEPT ![NewHandle] = "created"]
          /\ procs' = [procs EXCEPT ![p].pc = "prepare", ![p].rec = NewHandle]
          /\ UNCHANGED <<alerts, lastProc>>
    /\ UNCHANGED <<recording, recordingStartTimeMs, isLoading,
                   recorderExists, interval, taps, probes, navs>>
    /\ UNCHANGED <<clock, files>>

\* lines 69-92: prepareToRecordAsync settles; prepared, the recorder exists
\* with its temporary file, and startAsync is called.
start_prepare(p) ==
    /\ procs[p].kind = "start" /\ procs[p].pc = "prepare"
    /\ \/ /\ Alert("Start Failed")
          /\ Finish(p, "prepare", FALSE)
          /\ UNCHANGED <<handles, recorderExists, files>>
       \/ /\ handles' = [handles EXCEPT ![procs[p].rec] = "prepared"]
          /\ recorderExists' = TRUE
          /\ files' = files \cup {TempUris[procs[p].rec]}
          /\ procs' = [procs EXCEPT ![p].pc = "startAsync"]
          /\ UNCHANGED <<alerts, lastProc>>
    /\ UNCHANGED <<recording, recordingStartTimeMs, isLoading, interval, taps,
                   probes, navs>>
    /\ UNCHANGED clock

\* lines 92-100: startAsync settles; started, the Recording and the start
\* time are put into the state and the timer effect runs.
start_startAsync(p) ==
    /\ procs[p].kind = "start" /\ procs[p].pc = "startAsync"
    /\ \/ /\ Alert("Start Failed")
          /\ Finish(p, "startAsync", FALSE)
          /\ UNCHANGED <<handles, recording, recordingStartTimeMs, interval>>
       \/ /\ handles' = [handles EXCEPT ![procs[p].rec] = "recording"]
          /\ recording' = procs[p].rec
          /\ recordingStartTimeMs' = "set"
          /\ interval' = TimerEffect(procs[p].rec, "set")
          /\ Finish(p, "none", FALSE)
          /\ UNCHANGED alerts
    /\ UNCHANGED <<isLoading, recorderExists, taps, probes, navs>>
    /\ UNCHANGED <<clock, files>>

\* stop(), line 241 and lines 104-110: the button calls stop while recording
\* is set; the busy flag is raised and stopAndUnloadAsync is called, which
\* expo-av rejects at once for a Recording that is already unloaded.  Nothing
\* in stop() or in the button keeps a second call from being made while the
\* first is awaiting.
stop_call(p) ==
    /\ recording # 0
    /\ Press(p, [IdleProc EXCEPT !.kind = "stop", !.pc = "stopAndUnload",
                                !.rec = recording,
                                !.canRecord = (handles[recording] = "recording")])
    /\ isLoading' = TRUE
    /\ UNCHANGED <<recording, recordingStartTimeMs, handles, recorderExists,
                   interval, alerts, probes, navs>>
    /\ UNCHANGED <<clock, files>>

\* lines 151-156: the catch shows the alert, the finally lowers the busy flag.
StopFailed(p, step) ==
    /\ Alert("Stop Failed")
    /\ isLoading' = FALSE
    /\ Finish(p, step, FALSE)

\* lines 110-123: stopAndUnloadAsync settles.  Either way expo-av has unloaded
\* the recorder.  Stopped, the state is cleared, the timer effect runs, the
\* permanent name is taken from the clock and the copy is requested.  A call
\* made on a Recording that could still record may be answered as stopped
\* although another call has stopped the recorder meanwhile: stopping a
\* stopped recorder is an error on one platform and not on the other.
stop_stopAndUnload(p, now) ==
    /\ procs[p].kind = "stop" /\ procs[p].pc = "stopAndUnload"
    /\ now \in Readings
    /\ handles' = [handles EXCEPT ![procs[p].rec] = "stopped"]
    /\ recorderExists' = FALSE
    /\ \/ /\ StopFailed(p, "stopAndUnload")
          /\ UNCHANGED <<recording, recordingStartTimeMs, interval, clock>>
       \/ /\ procs[p].canRecord
          /\ recording' = 0
          /\ recordingStartTimeMs' = "null"
          /\ interval' = TimerEffect(0, "null")
          /\ clock' = now
          /\ procs' = [procs EXCEPT ![p].pc = "copy",
                                    ![p].tempUri = TempUris[procs[p].rec],
                                    ![p].permanentUri = PermanentUri(now)]
          /\ UNCHANGED <<alerts, isLoading, lastProc>>
    /\ UNCHANGED <<taps, probes, navs, files>>

\* lines 119-137: copyAsync settles; copied, the delete of the temporary file
\* is requested; rejected, the temporary locator is used and the probe load
\* is requested.
stop_copy(p) ==
    /\ procs[p].kind = "stop" /\ procs[p].pc = "copy"
    /\ \/ /\ procs[p].tempUri \in files
          /\ files' = files \cup {procs[p].permanentUri}
          /\ procs' = [procs EXCEPT ![p].pc = "deleteTemp"]
       \/ /\ UNCHANGED files
          /\ procs' = [procs EXCEPT ![p].pc = "load", ![p].failed = "copy",
                                    ![p].permanentUri = procs[p].tempUri]
    /\ UNCHANGED <<recording, recordingStartTimeMs, isLoading, handles,
                   recorderExists, interval, alerts, taps, probes, navs,
                   lastProc>>
    /\ UNCHANGED clock

\* lines 127-137: deleteAsync of the temporary file settles; a rejection lands
\* in the same catch as a failed copy.  Then the probe load is requested.
stop_deleteTemp(p) ==
    /\ procs[p].kind = "stop" /\ procs[p].pc = "deleteTemp"
    /\ \/ /\ files' = files \ {procs[p].tempUri}
          /\ procs' = [procs EXCEPT ![p].pc = "load"]
       \/ /\ UNCHANGED files
          /\ procs' = [procs EXCEPT ![p].pc = "load", ![p].failed = "deleteTemp",
                                    ![p].permanentUri = procs[p].tempUri]
    /\ UNCHANGED <<recording, recordingStartTimeMs, isLoading, handles,
                   recorderExists, interval, alerts, taps, probes, navs,
                   lastProc>>
    /\ UNCHANGED clock

\* lines 136-138: the load of the probe Sound settles.
stop_load(p) ==
    /\ procs[p].kind = "stop" /\ procs[p].pc = "load"
    /\ \/ /\ StopFailed(p, "load")
          /\ UNCHANGED probes
       \/ /\ procs[p].permanentUri \in files
          /\ probes' = probes + 1
          /\ procs' = [procs EXCEPT ![p].pc = "getStatus"]
          /\ UNCHANGED <<alerts, isLoading, lastProc>>
    /\ UNCHANGED <<recording, recordingStartTimeMs, handles, recorderExists,
                   interval, taps, navs>>
    /\ UNCHANGED <<clock, files>>

\* What the playback primitive may report as the duration of a file.
ProbedDurations == {0, 3000}

\* lines 138-141: getStatusAsync settles; the duration is the reported one,
\* or 0 when none is.
stop_getStatus(p, durationMillis) ==
    /\ procs[p].kind = "stop" /\ procs[p].pc = "getStatus"
    /\ \/ StopFailed(p, "getStatus")
       \/ /\ procs' = [procs EXCEPT ![p].pc = "unload",
                                    ![p].duration = durationMillis]
          /\ UNCHANGED <<alerts, isLoading, lastProc>>
    /\ UNCHANGED <<recording, recordingStartTimeMs, handles, recorderExists,
                   interval, taps, probes, navs>>
    /\ UNCHANGED <<clock, files>>

\* lines 141-156: unloadAsync of the probe settles; unloaded, the Review
\* screen is opened with the locator and the duration.
stop_unload(p) ==
    /\ procs[p].kind = "stop" /\ procs[p].pc = "unload"
    /\ \/ /\ StopFailed(p, "unload")
          /\ UNCHANGED <<probes, navs>>
       \/ /\ probes' = probes - 1
          /\ navs' = Append(navs, [audioUri |-> procs[p].permanentUri,
                                   audioDuration |-> procs[p].duration])
          /\ isLoading' = FALSE
          /\ Finish(p, procs[p].failed, TRUE)
          /\ UNCHANGED alerts
    /\ UNCHANGED <<recording, recordingStartTimeMs, handles, recorderExists,
                   interval, taps>>
    /\ UNCHANGED <<clock, files>>

InitRecord ==
    /\ recording = 0
    /\ recordingStartTimeMs = "null"
    /\ isLoading = FALSE
    /\ handles = [h \in HandleIds |-> "none"]
    /\ recorderExists = FALSE
    /\ interval = 0
    /\ alerts = [t \in AlertTitles |-> 0]
    /\ procs = [p \in ProcSlots |-> IdleProc]
    /\ taps = 0
    /\ probes = 0
    /\ navs = <<>>
    /\ lastProc = NoProc

\* The locators are interchangeable: the second is used only once the first is.
\* ----------------------------------------------- Review screen: playback
\* The Audio.Sound objects, numbered in the order of their loading.
SoundIds == 1..MaxPlayTaps

\* The locators a Review screen can be opened with; the last has no file.
PlayUris == {PermanentUri(t) : t \in 0..2}

\* What the playback primitive reports as the duration of a loaded file, and
\* the positions it is observed at, in milliseconds.
SoundDuration == 300
Positions == {0, 100, 200, SoundDuration}

\* togglePlayPause, line 222: how close to the end counts as played out.
ReplayMargin == 100

\* An Audio.Sound as the primitive holds it: fin is set from the moment the
\* playback ran to the end until the next command.
NoSound ==
    [state |-> "none", uri |-> <<>>, playing |-> FALSE, pos |-> 0, fin |-> FALSE]

Loaded(h) == h # 0 /\ sounds[h].state = "loaded"

LoadedSounds == {h \in SoundIds : sounds[h].state = "loaded"}

\* The answers getStatusAsync can give for a loaded sound.
NoStatus ==
    [isPlaying |-> FALSE, positionMillis |-> 0, durationMillis |-> 0,
     didJustFinish |-> FALSE]

Statuses(h) ==
    {[isPlaying |-> sounds[h].playing, positionMillis |-> sounds[h].pos,
      durationMillis |-> SoundDuration, didJustFinish |-> d] :
        d \in IF sounds[h].fin THEN BOOLEAN ELSE {FALSE}}

PlaySlots == {1, 2}

PlayAlertTitles == {"Error", "Audio Error"}

\* One asynchronous call of the Review screen between its start and its
\* settling: inst is the screen it belongs to, uri and snd the audioUri and
\* the sound its closure holds (for initializeAudio, snd is its own s),
\* status what getStatusAsync answered.  alone, failed, prev and sought only
\* record history: whether no other call was in flight with it, the awaited
\* call that was rejected, the sound state when the call began, and whether
\* setPositionAsync(0) was issued.
IdlePlay ==
    [kind |-> "idle", pc |-> "idle", inst |-> 0, uri |-> <<>>, snd |-> 0,
     prev |-> 0, status |-> NoStatus, alone |-> TRUE, failed |-> "none",
     sought |-> FALSE, target |-> 0, overtaken |-> "no"]

NoPlay ==
    [kind |-> "none", snd |-> 0, prev |-> 0, status |-> NoStatus,
     alone |-> TRUE, failed |-> "none", sought |-> FALSE, startedFrom |-> 0,
     playingAfter |-> FALSE, target |-> 0, overtaken |-> "no",
     primitiveAfter |-> FALSE]

PlayIdle(p) == plays[p].kind = "idle"

AllPlaysIdle == \A p \in PlaySlots : PlayIdle(p)

\* The free slots, lowest first.
FreePlaySlots == {p \in PlaySlots : PlayIdle(p)}

FirstFree(slots) == CHOOSE p \in slots : \A q \in slots : p <= q

\* The calls in flight after the calls in started have begun in their slots;
\* started is a function from the slots taken to the calls.
Begin(started) ==
    [q \in PlaySlots |->
        IF q \in DOMAIN started
        THEN [started[q] EXCEPT !.alone = AllPlaysIdle /\ Cardinality(DOMAIN started) = 1]
        ELSE IF PlayIdle(q) THEN plays[q]
        ELSE [plays[q] EXCEPT !.alone = FALSE]]

\* A state setter of the screen a call belongs to has an effect only while
\* that screen is mounted.
Live(p) == mounted /\ plays[p].inst = instance

\* History only: a seekTo in flight records that a togglePlayPause was called
\* after it ("called"), and what that togglePlayPause came to while the
\* seekTo was still in flight ("paused", "played").
Overtake(ps) ==
    [q \in PlaySlots |->
        IF ps[q].kind = "seekTo" THEN [ps[q] EXCEPT !.overtaken = "called"]
        ELSE ps[q]]

Overtaken(p, q, failed) ==
    IF /\ plays[p].kind = "togglePlayPause" /\ failed = "none"
       /\ plays[q].kind = "seekTo" /\ plays[q].overtaken # "no"
    THEN [plays[q] EXCEPT !.overtaken = IF plays[p].pc = "pause" THEN "paused"
                                        ELSE "played"]
    ELSE plays[q]

\* The call in plays[p] settles.  primitiveAfter is recorded for seekTo and
\* playFrom: whether the Sound was playing when the call settled.
SettledWith(p, failed, startedFrom, playingAfter, primitiveAfter) ==
    /\ plays' = [q \in PlaySlots |->
                   IF q = p THEN IdlePlay ELSE Overtaken(p, q, failed)]
    /\ lastPlay' = [kind |-> plays[p].kind, snd |-> plays[p].snd,
                    prev |-> plays[p].prev, status |-> plays[p].status,
                    alone |-> plays[p].alone, failed |-> failed,
                    sought |-> plays[p].sought, startedFrom |-> startedFrom,
                    playingAfter |-> playingAfter,
                    target |-> plays[p].target,
                    overtaken |-> plays[p].overtaken,
                    primitiveAfter |-> primitiveAfter]

Settled(p, failed, startedFrom, playingAfter) ==
    SettledWith(p, failed, startedFrom, playingAfter, FALSE)

PlayAlert(title) == playAlerts' = [playAlerts EXCEPT ![title] = @ + 1]

\* The progress effect, lines 150-168, in a step of the Review screen: when
\* sound or isPlaying has changed, or the screen has unmounted, the cleanup of
\* its last run clears the interval that run set, and on a mounted screen it
\* runs again and sets one when a sound is in the state and isPlaying is set.
ProgressEffect ==
    IF mounted' = mounted /\ sound' = sound /\ isPlaying' = isPlaying
    THEN polling
    ELSE polling
            - (IF mounted /\ sound # 0 /\ isPlaying THEN 1 ELSE 0)
            + (IF mounted' /\ sound' # 0 /\ isPlaying' THEN 1 ELSE 0)

\* initializeAudio() as the [audioUri] effect calls it, lines 109-121.
InitializeAudio(inst, uri, prev) ==
    [IdlePlay EXCEPT !.kind = "initializeAudio", !.pc = "setAudioMode",
                     !.inst = inst, !.uri = uri, !.prev = prev]

\* cleanupAudio() as the cleanup of the [audioUri] effect calls it, lines
\* 87-91, with the sound its closure holds.
CleanupAudio(inst, snd) ==
    [IdlePlay EXCEPT !.kind = "cleanupAudio", !.pc = "getStatus",
                     !.inst = inst, !.snd = snd]

\* The effect of lines 62-68 runs again: the cleanup of its last run calls
\* cleanupAudio with the sound of that render, then initializeAudio is called
\* with the new audioUri.
EffectRuns(inst, uri, free) ==
    IF effectSound = 0
    THEN FirstFree(free) :> InitializeAudio(inst, uri, sound)
    ELSE (FirstFree(free) :> CleanupAudio(inst, effectSound))
         @@ (FirstFree(free \ {FirstFree(free)}) :> InitializeAudio(inst, uri, sound))

\* navigation.navigate('Review', ...) with no Review screen on the stack: the
\* screen mounts with its initial state and the effect of lines 62-68 runs.
Open(uri) ==
    /\ ~mounted
    /\ playTaps < MaxPlayTaps
    /\ FreePlaySlots # {}
    /\ mounted' = TRUE
    /\ instance' = instance + 1
    /\ audioUri' = uri
    /\ sound' = 0
    /\ effectSound' = 0
    /\ isPlaying' = FALSE
    /\ audioProgress' = 0
    /\ plays' = Begin(FirstFree(FreePlaySlots) :> InitializeAudio(instance + 1, uri, 0))
    /\ playTaps' = playTaps + 1
    /\ lastPlay' = NoPlay
    /\ UNCHANGED <<sounds, playAlerts>>
    /\ polling' = ProgressEffect

\* navigation.navigate('Review', ...) while the Review screen is on top of the
\* stack: the screen gets the new params and, audioUri having changed, the
\* effect of lines 62-68 runs again.
ChangeParams(uri) ==
    /\ mounted
    /\ uri # audioUri
    /\ playTaps < MaxPlayTaps
    /\ Cardinality(FreePlaySlots) >= (IF effectSound = 0 THEN 1 ELSE 2)
    /\ audioUri' = uri
    /\ effectSound' = sound
    /\ plays' = Begin(EffectRuns(instance, uri, FreePlaySlots))
    /\ playTaps' = playTaps + 1
    /\ lastPlay' = NoPlay
    /\ UNCHANGED <<mounted, instance, sound, isPlaying, audioProgress, sounds,
                   playAlerts>>
    /\ polling' = ProgressEffect

\* navigation.goBack(): the screen loses focus and unmounts.  The focus
\* effect's cleanup, lines 76-82, pauses a sound it holds as playing, and the
\* cleanup of the effect of lines 62-68 calls cleanupAudio.
GoBack ==
    /\ mounted
    /\ playTaps < MaxPlayTaps
    /\ effectSound # 0 => FreePlaySlots # {}
    /\ mounted' = FALSE
    /\ sounds' = IF Loaded(sound) /\ isPlaying
                 THEN [sounds EXCEPT ![sound].playing = FALSE]
                 ELSE sounds
    /\ plays' = IF effectSound = 0
                THEN [q \in PlaySlots |->
                        IF PlayIdle(q) THEN plays[q]
                        ELSE [plays[q] EXCEPT !.alone = FALSE]]
                ELSE Begin(FirstFree(FreePlaySlots) :> CleanupAudio(instance, effectSound))
    /\ sound' = 0
    /\ effectSound' = 0
    /\ isPlaying' = FALSE
    /\ audioProgress' = 0
    /\ playTaps' = playTaps + 1
    /\ lastPlay' = NoPlay
    /\ UNCHANGED <<instance, audioUri, playAlerts>>
    /\ polling' = ProgressEffect

\* initializeAudio, lines 114-123: setAudioModeAsync settles and getInfoAsync
\* is called.
initializeAudio_setAudioMode(p) ==
    /\ plays[p].kind = "initializeAudio" /\ plays[p].pc = "setAudioMode"
    /\ plays' = [plays EXCEPT ![p].pc = "getInfo"]
    /\ UNCHANGED <<mounted, instance, audioUri, sound, effectSound, isPlaying,
                   audioProgress, sounds, playTaps, playAlerts, lastPlay>>
    /\ polling' = ProgressEffect

\* lines 123-133: getInfoAsync settles; without a file the alert is shown and
\* the call returns, with one a Sound is created and its load is requested.
initializeAudio_getInfo(p) ==
    /\ plays[p].kind = "initializeAudio" /\ plays[p].pc = "getInfo"
    /\ IF plays[p].uri \in files
       THEN /\ plays' = [plays EXCEPT ![p].pc = "load"]
            /\ UNCHANGED <<playAlerts, lastPlay>>
       ELSE /\ PlayAlert("Error")
            /\ Settled(p, "missing", 0, FALSE)
    /\ UNCHANGED <<mounted, instance, audioUri, sound, effectSound, isPlaying,
                   audioProgress, sounds, playTaps>>
    /\ polling' = ProgressEffect

\* The next Audio.Sound to be loaded.
NewSound ==
    CHOOSE h \in SoundIds :
        sounds[h].state = "none" /\ \A g \in SoundIds : g < h => sounds[g].state # "none"

\* lines 132-134 and 143-146: loadAsync settles; rejected, the catch shows the
\* alert.
initializeAudio_load(p) ==
    /\ plays[p].kind = "initializeAudio" /\ plays[p].pc = "load"
    /\ \/ /\ PlayAlert("Audio Error")
          /\ Settled(p, "load", 0, FALSE)
          /\ UNCHANGED sounds
       \/ /\ plays[p].uri \in files
          /\ sounds' = [sounds EXCEPT ![NewSound] =
                          [NoSound EXCEPT !.state = "loaded", !.uri = plays[p].uri]]
          /\ plays' = [plays EXCEPT ![p].pc = "setIsMuted", ![p].snd = NewSound]
          /\ UNCHANGED <<playAlerts, lastPlay>>
    /\ UNCHANGED <<mounted, instance, audioUri, sound, effectSound, isPlaying,
                   audioProgress, playTaps>>
    /\ polling' = ProgressEffect

\* lines 134-135: setIsMutedAsync settles.
initializeAudio_setIsMuted(p) ==
    /\ plays[p].kind = "initializeAudio" /\ plays[p].pc = "setIsMuted"
    /\ plays' = [plays EXCEPT ![p].pc = "setVolume"]
    /\ UNCHANGED <<mounted, instance, audioUri, sound, effectSound, isPlaying,
                   audioProgress, sounds, playTaps, playAlerts, lastPlay>>
    /\ polling' = ProgressEffect

\* lines 135-142: setVolumeAsync settles and the Sound is put into the state.
initializeAudio_setVolume(p) ==
    /\ plays[p].kind = "initializeAudio" /\ plays[p].pc = "setVolume"
    /\ sound' = IF Live(p) THEN plays[p].snd ELSE sound
    /\ audioProgress' = IF Live(p) THEN 0 ELSE audioProgress
    /\ Settled(p, "none", 0, FALSE)
    /\ UNCHANGED <<mounted, instance, audioUri, effectSound, isPlaying, sounds,
                   playTaps, playAlerts>>
    /\ polling' = ProgressEffect

\* What getStatusAsync answers: for a sound that is not loaded, a status
\* without position, duration or flags, which the callers read as 0 and false.
StatusOf(h) == IF Loaded(h) THEN Statuses(h) ELSE {NoStatus}

\* unloadAsync: does nothing to a sound that is not loaded.
Unload(h) ==
    IF Loaded(h)
    THEN [sounds EXCEPT ![h] = [NoSound EXCEPT !.state = "unloaded", !.uri = sounds[h].uri]]
    ELSE sounds

\* cleanupAudio, lines 88-94: getStatusAsync settles; a playing sound is to be
\* paused, any other unloaded; a rejection leads to the catch of lines 97-105.
cleanupAudio_getStatus(p) ==
    /\ plays[p].kind = "cleanupAudio" /\ plays[p].pc = "getStatus"
    /\ \/ plays' = [plays EXCEPT ![p].pc = "forceUnload", ![p].failed = "getStatus"]
       \/ \E status \in StatusOf(plays[p].snd) :
             plays' = [plays EXCEPT ![p].pc = IF status.isPlaying THEN "pause"
                                                ELSE "unload"]
    /\ UNCHANGED <<mounted, instance, audioUri, sound, effectSound, isPlaying,
                   audioProgress, sounds, playTaps, playAlerts, lastPlay>>
    /\ polling' = ProgressEffect

\* lines 92-94: pauseAsync settles.
cleanupAudio_pause(p) ==
    /\ plays[p].kind = "cleanupAudio" /\ plays[p].pc = "pause"
    /\ IF Loaded(plays[p].snd)
       THEN /\ sounds' = [sounds EXCEPT ![plays[p].snd].playing = FALSE]
            /\ plays' = [plays EXCEPT ![p].pc = "unload"]
       ELSE /\ plays' = [plays EXCEPT ![p].pc = "forceUnload", ![p].failed = "pause"]
            /\ UNCHANGED sounds
    /\ UNCHANGED <<mounted, instance, audioUri, sound, effectSound, isPlaying,
                   audioProgress, playTaps, playAlerts, lastPlay>>
    /\ polling' = ProgressEffect

\* lines 95-96: unloadAsync settles.
cleanupAudio_unload(p) ==
    /\ plays[p].kind = "cleanupAudio" /\ plays[p].pc = "unload"
    /\ sounds' = Unload(plays[p].snd)
    /\ Settled(p, "none", 0, FALSE)
    /\ UNCHANGED <<mounted, instance, audioUri, sound, effectSound, isPlaying,
                   audioProgress, playTaps, playAlerts>>
    /\ polling' = ProgressEffect

\* lines 97-105: the unloadAsync of the catch settles.
cleanupAudio_forceUnload(p) ==
    /\ plays[p].kind = "cleanupAudio" /\ plays[p].pc = "forceUnload"
    /\ sounds' = Unload(plays[p].snd)
    /\ Settled(p, plays[p].failed, 0, FALSE)
    /\ UNCHANGED <<mounted, instance, audioUri, sound, effectSound, isPlaying,
                   audioProgress, playTaps, playAlerts>>
    /\ polling' = ProgressEffect

\* togglePlayPause, line 221: the track is replayed from the start when it
\* just finished or stands within the margin of its end.
ReplayFromStart_Strict(status) ==
    status.didJustFinish
        \/ status.positionMillis > status.durationMillis - ReplayMargin

ReplayFromStart(status) ==
    status.didJustFinish
        \/ status.positionMillis >= status.durationMillis - ReplayMargin

\* togglePlayPause, lines 210-212: with a sound in the state, getStatusAsync
\* is called.
togglePlayPause_call(p) ==
    /\ mounted
    /\ sound # 0
    /\ playTaps < MaxPlayTaps
    /\ FreePlaySlots # {} /\ p = FirstFree(FreePlaySlots)
    /\ plays' = Overtake(Begin(p :> [IdlePlay EXCEPT
                                       !.kind = "togglePlayPause",
                                       !.pc = "getStatus", !.inst = instance,
                                       !.snd = sound, !.prev = sound]))
    /\ playTaps' = playTaps + 1
    /\ lastPlay' = NoPlay
    /\ UNCHANGED <<mounted, instance, audioUri, sound, effectSound, isPlaying,
                   audioProgress, sounds, playAlerts>>
    /\ polling' = ProgressEffect

\* lines 212-227: getStatusAsync settles; a playing sound is to be paused; any
\* other is to be played, after a seek to 0 if it is played out.
togglePlayPause_getStatus(p) ==
    /\ plays[p].kind = "togglePlayPause" /\ plays[p].pc = "getStatus"
    /\ \E status \in StatusOf(plays[p].snd) :
          plays' = [plays EXCEPT ![p].status = status,
                                 ![p].pc = IF status.isPlaying THEN "pause"
                                           ELSE IF ReplayFromStart(status) THEN "setPosition"
                                           ELSE "setVolume"]
    /\ UNCHANGED <<mounted, instance, audioUri, sound, effectSound, isPlaying,
                   audioProgress, sounds, playTaps, playAlerts, lastPlay>>
    /\ polling' = ProgressEffect

\* lines 215-216: pauseAsync settles; paused, isPlaying is cleared.  A call on
\* a sound that is not loaded is rejected, and nothing catches it.
togglePlayPause_pause(p) ==
    /\ plays[p].kind = "togglePlayPause" /\ plays[p].pc = "pause"
    /\ IF Loaded(plays[p].snd)
       THEN /\ sounds' = [sounds EXCEPT ![plays[p].snd].playing = FALSE]
            /\ isPlaying' = IF Live(p) THEN FALSE ELSE isPlaying
            /\ Settled(p, "none", 0, FALSE)
       ELSE /\ Settled(p, "pause", 0, FALSE)
            /\ UNCHANGED <<sounds, isPlaying>>
    /\ UNCHANGED <<mounted, instance, audioUri, sound, effectSound,
                   audioProgress, playTaps, playAlerts>>
    /\ polling' = ProgressEffect

\* lines 222-227: setPositionAsync(0) settles; the progress is reset and
\* setVolumeAsync is called.
togglePlayPause_setPosition(p) ==
    /\ plays[p].kind = "togglePlayPause" /\ plays[p].pc = "setPosition"
    /\ IF Loaded(plays[p].snd)
       THEN /\ sounds' = [sounds EXCEPT ![plays[p].snd].pos = 0,
                                        ![plays[p].snd].fin = FALSE]
            /\ audioProgress' = IF Live(p) THEN 0 ELSE audioProgress
            /\ plays' = [plays EXCEPT ![p].pc = "setVolume", ![p].sought = TRUE]
            /\ UNCHANGED lastPlay
       ELSE /\ Settled(p, "setPosition", 0, FALSE)
            /\ UNCHANGED <<sounds, audioProgress>>
    /\ UNCHANGED <<mounted, instance, audioUri, sound, effectSound, isPlaying,
                   playTaps, playAlerts>>
    /\ polling' = ProgressEffect

\* lines 227-228: setVolumeAsync settles.
togglePlayPause_setVolume(p) ==
    /\ plays[p].kind = "togglePlayPause" /\ plays[p].pc = "setVolume"
    /\ IF Loaded(plays[p].snd)
       THEN plays' = [plays EXCEPT ![p].pc = "setIsMuted"] /\ UNCHANGED lastPlay
       ELSE Settled(p, "setVolume", 0, FALSE)
    /\ UNCHANGED <<mounted, instance, audioUri, sound, effectSound, isPlaying,
                   audioProgress, sounds, playTaps, playAlerts>>
    /\ polling' = ProgressEffect

\* lines 228-229: setIsMutedAsync settles.
togglePlayPause_setIsMuted(p) ==
    /\ plays[p].kind = "togglePlayPause" /\ plays[p].pc = "setIsMuted"
    /\ IF Loaded(plays[p].snd)
       THEN plays' = [plays EXCEPT ![p].pc = "play"] /\ UNCHANGED lastPlay
       ELSE Settled(p, "setIsMuted", 0, FALSE)
    /\ UNCHANGED <<mounted, instance, audioUri, sound, effectSound, isPlaying,
                   audioProgress, sounds, playTaps, playAlerts>>
    /\ polling' = ProgressEffect

\* lines 229-231: playAsync settles; playing, isPlaying is set.
togglePlayPause_play(p) ==
    /\ plays[p].kind = "togglePlayPause" /\ plays[p].pc = "play"
    /\ IF Loaded(plays[p].snd)
       THEN /\ sounds' = [sounds EXCEPT ![plays[p].snd].playing = TRUE,
                                        ![plays[p].snd].fin = FALSE]
            /\ isPlaying' = IF Live(p) THEN TRUE ELSE isPlaying
            /\ Settled(p, "none", sounds[plays[p].snd].pos, isPlaying')
       ELSE /\ Settled(p, "play", 0, FALSE)
            /\ UNCHANGED <<sounds, isPlaying>>
    /\ UNCHANGED <<mounted, instance, audioUri, sound, effectSound,
                   audioProgress, playTaps, playAlerts>>
    /\ polling' = ProgressEffect

\* The progress effect, lines 153-155: an interval that is running fires,
\* and getStatusAsync is called on the sound of its closure.  Nothing keeps
\* the interval from firing again before the answer has come.
progress_tick(p) ==
    /\ mounted
    /\ polling > 0
    /\ FreePlaySlots # {} /\ p = FirstFree(FreePlaySlots)
    /\ plays' = Begin(p :> [IdlePlay EXCEPT !.kind = "progress", !.pc = "getStatus",
                                            !.inst = instance, !.snd = sound])
    /\ UNCHANGED <<mounted, instance, audioUri, sound, effectSound, isPlaying,
                   audioProgress, sounds, playTaps, playAlerts, lastPlay>>
    /\ polling' = ProgressEffect

\* lines 155-164: getStatusAsync settles; the progress follows the position,
\* and a sound that just finished clears isPlaying and the progress.  History
\* only: lastPlay keeps that the finish was observed, until the next call.
progress_getStatus(p) ==
    /\ plays[p].kind = "progress" /\ plays[p].pc = "getStatus"
    /\ \E status \in StatusOf(plays[p].snd) :
          /\ audioProgress' = IF ~Live(p) THEN audioProgress
                              ELSE IF status.didJustFinish THEN 0
                              ELSE status.positionMillis
          /\ isPlaying' = IF Live(p) /\ status.didJustFinish THEN FALSE ELSE isPlaying
          /\ plays' = [plays EXCEPT ![p] = IdlePlay]
          /\ lastPlay' = IF Live(p) /\ status.didJustFinish
                         THEN [NoPlay EXCEPT !.kind = "finished",
                                             !.snd = plays[p].snd,
                                             !.alone = \A q \in PlaySlots \ {p} : PlayIdle(q)]
                         ELSE lastPlay
    /\ UNCHANGED <<mounted, instance, audioUri, sound, effectSound, sounds,
                   playTaps, playAlerts>>
    /\ polling' = ProgressEffect

\* The playback primitive: a playing sound moves on and, at its end, stops.
Advance(h, pos) ==
    /\ Loaded(h) /\ sounds[h].playing
    /\ pos > sounds[h].pos \/ pos = SoundDuration
    /\ sounds' = [sounds EXCEPT ![h].pos = pos,
                                ![h].playing = pos # SoundDuration,
                                ![h].fin = pos = SoundDuration]
    /\ UNCHANGED <<mounted, instance, audioUri, sound, effectSound, isPlaying,
                   audioProgress, plays, playTaps, playAlerts, lastPlay>>
    /\ polling' = ProgressEffect

\* ---------------------------------------- Review screen: seekTo, playFrom
\* What the waveform hands to seekTo, in milliseconds.
SeekTargets == {0, 200}

\* seekTo, lines 179-184, from the waveform's onSeek, line 601: with a sound
\* in the state, getStatusAsync is called.
seekTo_call(p, position) ==
    /\ mounted
    /\ sound # 0
    /\ playTaps < MaxPlayTaps
    /\ FreePlaySlots # {} /\ p = FirstFree(FreePlaySlots)
    /\ plays' = Begin(p :> [IdlePlay EXCEPT !.kind = "seekTo",
                                            !.pc = "getStatus", !.inst = instance,
                                            !.snd = sound, !.target = position])
    /\ playTaps' = playTaps + 1
    /\ lastPlay' = NoPlay
    /\ UNCHANGED <<mounted, instance, audioUri, sound, effectSound, isPlaying,
                   audioProgress, sounds, playAlerts>>
    /\ polling' = ProgressEffect

\* lines 184-188: getStatusAsync settles, wasPlaying is taken from it, and
\* setPositionAsync is called.
seekTo_getStatus(p) ==
    /\ plays[p].kind = "seekTo" /\ plays[p].pc = "getStatus"
    /\ \E status \in StatusOf(plays[p].snd) :
          plays' = [plays EXCEPT ![p].status = status, ![p].pc = "setPosition"]
    /\ UNCHANGED <<mounted, instance, audioUri, sound, effectSound, isPlaying,
                   audioProgress, sounds, playTaps, playAlerts, lastPlay>>
    /\ polling' = ProgressEffect

\* lines 188-198: setPositionAsync settles; the progress is set, and a sound
\* that was playing is played.  A rejection is caught and logged.
seekTo_setPosition(p) ==
    /\ plays[p].kind = "seekTo" /\ plays[p].pc = "setPosition"
    /\ IF Loaded(plays[p].snd)
       THEN /\ sounds' = [sounds EXCEPT ![plays[p].snd].pos = plays[p].target,
                                        ![plays[p].snd].fin = FALSE]
            /\ audioProgress' = IF Live(p) THEN plays[p].target ELSE audioProgress
            /\ IF plays[p].status.isPlaying
               THEN /\ plays' = [plays EXCEPT ![p].pc = "play", ![p].sought = TRUE]
                    /\ UNCHANGED lastPlay
               ELSE SettledWith(p, "none", plays[p].target, isPlaying,
                                sounds[plays[p].snd].playing)
       ELSE /\ SettledWith(p, "setPosition", 0, isPlaying, FALSE)
            /\ UNCHANGED <<sounds, audioProgress>>
    /\ UNCHANGED <<mounted, instance, audioUri, sound, effectSound, isPlaying,
                   playTaps, playAlerts>>
    /\ polling' = ProgressEffect

\* lines 192-198: playAsync settles; playing, isPlaying is set.
seekTo_play(p) ==
    /\ plays[p].kind = "seekTo" /\ plays[p].pc = "play"
    /\ IF Loaded(plays[p].snd)
       THEN /\ sounds' = [sounds EXCEPT ![plays[p].snd].playing = TRUE,
                                        ![plays[p].snd].fin = FALSE]
            /\ isPlaying' = IF Live(p) THEN TRUE ELSE isPlaying
            /\ SettledWith(p, "none", sounds[plays[p].snd].pos, isPlaying', TRUE)
       ELSE /\ SettledWith(p, "play", 0, isPlaying, FALSE)
            /\ UNCHANGED <<sounds, isPlaying>>
    /\ UNCHANGED <<mounted, instance, audioUri, sound, effectSound,
                   audioProgress, playTaps, playAlerts>>
    /\ polling' = ProgressEffect

\* The start times of the topics, in tenths of a millisecond, and
\* Math.floor(seconds * 1000).
TopicStarts == {0, 1005, 2000}

FloorMillis(tenths) == tenths \div 10

\* playFrom, lines 202-204, from a topic's play button, line 795: with a
\* sound in the state, setPositionAsync is called.
playFrom_call(p, seconds) ==
    /\ mounted
    /\ sound # 0
    /\ playTaps < MaxPlayTaps
    /\ FreePlaySlots # {} /\ p = FirstFree(FreePlaySlots)
    /\ plays' = Begin(p :> [IdlePlay EXCEPT !.kind = "playFrom",
                                            !.pc = "setPosition", !.inst = instance,
                                            !.snd = sound, !.target = seconds])
    /\ playTaps' = playTaps + 1
    /\ lastPlay' = NoPlay
    /\ UNCHANGED <<mounted, instance, audioUri, sound, effectSound, isPlaying,
                   audioProgress, sounds, playAlerts>>
    /\ polling' = ProgressEffect

\* lines 204-205: setPositionAsync settles.  A call on a sound that is not
\* loaded is rejected, and nothing catches it.
playFrom_setPosition(p) ==
    /\ plays[p].kind = "playFrom" /\ plays[p].pc = "setPosition"
    /\ IF Loaded(plays[p].snd)
       THEN /\ sounds' = [sounds EXCEPT
                             ![plays[p].snd].pos = FloorMillis(plays[p].target),
                             ![plays[p].snd].fin = FALSE]
            /\ plays' = [plays EXCEPT ![p].pc = "setIsMuted", ![p].sought = TRUE]
            /\ UNCHANGED lastPlay
       ELSE /\ SettledWith(p, "setPosition", 0, isPlaying, FALSE)
            /\ UNCHANGED sounds
    /\ UNCHANGED <<mounted, instance, audioUri, sound, effectSound, isPlaying,
                   audioProgress, playTaps, playAlerts>>
    /\ polling' = ProgressEffect

\* lines 205-206: setIsMutedAsync settles.
playFrom_setIsMuted(p) ==
    /\ plays[p].kind = "playFrom" /\ plays[p].pc = "setIsMuted"
    /\ IF Loaded(plays[p].snd)
       THEN plays' = [plays EXCEPT ![p].pc = "setVolume"] /\ UNCHANGED lastPlay
       ELSE SettledWith(p, "setIsMuted", 0, isPlaying, FALSE)
    /\ UNCHANGED <<mounted, instance, audioUri, sound, effectSound, isPlaying,
                   audioProgress, sounds, playTaps, playAlerts>>
    /\ polling' = ProgressEffect

\* lines 206-207: setVolumeAsync settles.
playFrom_setVolume(p) ==
    /\ plays[p].kind = "playFrom" /\ plays[p].pc = "setVolume"
    /\ IF Loaded(plays[p].snd)
       THEN plays' = [plays EXCEPT ![p].pc = "play"] /\ UNCHANGED lastPlay
       ELSE SettledWith(p, "setVolume", 0, isPlaying, FALSE)
    /\ UNCHANGED <<mounted, instance, audioUri, sound, effectSound, isPlaying,
                   audioProgress, sounds, playTaps, playAlerts>>
    /\ polling' = ProgressEffect

\* lines 207-208: playAsync settles and playFrom returns; no state of the
\* screen is set.
playFrom_play(p) ==
    /\ plays[p].kind = "playFrom" /\ plays[p].pc = "play"
    /\ IF Loaded(plays[p].snd)
       THEN /\ sounds' = [sounds EXCEPT ![plays[p].snd].playing = TRUE,
                                        ![plays[p].snd].fin = FALSE]
            /\ SettledWith(p, "none", sounds[plays[p].snd].pos, isPlaying, TRUE)
       ELSE /\ SettledWith(p, "play", 0, isPlaying, FALSE)
            /\ UNCHANGED sounds
    /\ UNCHANGED <<mounted, instance, audioUri, sound, effectSound, isPlaying,
                   audioProgress, playTaps, playAlerts>>
    /\ polling' = ProgressEffect

InitPlay ==
    /\ mounted = FALSE
    /\ instance = 0
    /\ audioUri = PermanentUri(0)
    /\ sound = 0
    /\ effectSound = 0
    /\ isPlaying = FALSE
    /\ audioProgress = 0
    /\ sounds = [h \in SoundIds |-> NoSound]
    /\ plays = [p \in PlaySlots |-> IdlePlay]
    /\ playTaps = 0
    /\ playAlerts = [t \in PlayAlertTitles |-> 0]
    /\ lastPlay = NoPlay
    /\ polling = 0

\* ----------------------------------------------- Review screen: workflow
\* The transcription service's answer as the screen keeps it: null, or the
\* data of an answer with ok set.
NoResult == [set |-> FALSE, full_text |-> ""]

ServerResult(fullText) == [set |-> TRUE, full_text |-> fullText]

\* The answers of the transcription service: ok or not, with or without text.
UploadData == [ok : BOOLEAN, full_text : {"", "text"}]

\* The answers of the extraction service: ok or not, with an array of points
\* or without.
PointLists == {<<>>, <<"a", "b">>, <<"c">>}

ExtractData ==
    [ok : BOOLEAN, actionablePoints : {Undefined} \cup {Arr(l) : l \in PointLists}]

\* What can stand in the title field, and String.prototype.trim.
Titles == {"", " ", "t"}

Trim(title) == IF title = " " THEN "" ELSE title

ReviewAlertTitles ==
    {"Error", "Success", "No Transcription", "Upload Failed", "File Too Large"}

RevSlots == {1, 2}

\* One upload() or extractActionablePoints() between the press and its
\* settling.
IdleRev == [kind |-> "idle", pc |-> "idle", inst |-> 0]

\* A state setter of the screen a call belongs to has an effect only while
\* that screen is mounted.
LiveRev(p) == mounted /\ revs[p].inst = instance

NoExtract ==
    [kind |-> "none", outcome |-> "none", live |-> FALSE, before |-> <<>>,
     response |-> <<>>, after |-> <<>>]

RevIdle(p) == revs[p].kind = "idle"

FirstRevSlot(p) == RevIdle(p) /\ \A q \in RevSlots : q < p => ~RevIdle(q)

ReviewAlert(title) == reviewAlerts' = [reviewAlerts EXCEPT ![title] = @ + 1]

\* The buttons of the screen can be pressed while it is on the stack and no
\* alert with a handler covers it.
CanPress == mounted /\ pendingOK = 0 /\ ~confirm.open /\ revTaps < MaxReviewTaps

\* isSavedRecording, line 47: the screen was opened with a result whose ok is
\* true.  The screen modelled here is opened by stop(), with serverResult
\* null (index.tsx, line 149).
RouteServerResult == [set |-> FALSE, ok |-> FALSE]

isSavedRecording == serverResult.set /\ serverResult.ok = TRUE

\* upload(), lines 234-241, from the 'Upload to Deepgram' button of line 651,
\* shown while there is no result: the busy flag is raised and getInfoAsync
\* is called.
upload_call(p) ==
    /\ CanPress
    /\ ~isSavedRecording /\ ~showTitleInput /\ ~currentServerResult.set
    /\ FirstRevSlot(p)
    /\ revs' = [revs EXCEPT ![p] = [IdleRev EXCEPT !.kind = "upload", !.pc = "getInfo",
                                                   !.inst = instance]]
    /\ reviewIsLoading' = TRUE
    /\ revTaps' = revTaps + 1
    /\ UNCHANGED <<pointVars, audioDuration, currentServerResult, showTitleInput,
                   actionablePoints, isLoadingActionable, pendingOK,
                   reviewAlerts, lastExtract>>

\* lines 340-352: the catch shows the alert, the finally lowers the busy flag.
UploadFailed(p) ==
    /\ ReviewAlert("Upload Failed")
    /\ reviewIsLoading' = FALSE
    /\ revs' = [revs EXCEPT ![p] = IdleRev]

\* lines 241-252: getInfoAsync settles; a file above the limit ends the call
\* with its own alert, otherwise the file is read.
upload_getInfo(p) ==
    /\ revs[p].kind = "upload" /\ revs[p].pc = "getInfo"
    /\ \/ UploadFailed(p)
       \/ /\ ReviewAlert("File Too Large")
          /\ reviewIsLoading' = FALSE
          /\ revs' = [revs EXCEPT ![p] = IdleRev]
       \/ /\ revs' = [revs EXCEPT ![p].pc = "readAsString"]
          /\ UNCHANGED <<reviewAlerts, reviewIsLoading>>
    /\ UNCHANGED <<pointVars, audioDuration, currentServerResult, showTitleInput,
                   actionablePoints, isLoadingActionable, pendingOK, revTaps,
                   lastExtract>>

\* lines 252-266: readAsStringAsync settles and the request is sent.
upload_readAsString(p) ==
    /\ revs[p].kind = "upload" /\ revs[p].pc = "readAsString"
    /\ \/ UploadFailed(p)
       \/ /\ revs' = [revs EXCEPT ![p].pc = "fetch"]
          /\ UNCHANGED <<reviewAlerts, reviewIsLoading>>
    /\ UNCHANGED <<pointVars, audioDuration, currentServerResult, showTitleInput,
                   actionablePoints, isLoadingActionable, pendingOK, revTaps,
                   lastExtract>>

\* lines 266-284: fetch settles: rejected, or with a response whose body is
\* then read as text (status not ok) or as JSON.
upload_fetch(p) ==
    /\ revs[p].kind = "upload" /\ revs[p].pc = "fetch"
    /\ \/ UploadFailed(p)
       \/ /\ \E pc \in {"text", "json"} : revs' = [revs EXCEPT ![p].pc = pc]
          /\ UNCHANGED <<reviewAlerts, reviewIsLoading>>
    /\ UNCHANGED <<pointVars, audioDuration, currentServerResult, showTitleInput,
                   actionablePoints, isLoadingActionable, pendingOK, revTaps,
                   lastExtract>>

\* lines 278-282: the text of a response that is not ok settles, and the
\* error is thrown.
upload_text(p) ==
    /\ revs[p].kind = "upload" /\ revs[p].pc = "text"
    /\ UploadFailed(p)
    /\ UNCHANGED <<pointVars, audioDuration, currentServerResult, showTitleInput,
                   actionablePoints, isLoadingActionable, pendingOK, revTaps,
                   lastExtract>>

\* lines 284-352: resp.json() settles; data with ok set becomes the current
\* result, anything else is thrown.
upload_json(p) ==
    /\ revs[p].kind = "upload" /\ revs[p].pc = "json"
    /\ \/ /\ UploadFailed(p)
          /\ UNCHANGED currentServerResult
       \/ \E data \in UploadData :
             IF data.ok
             THEN /\ currentServerResult' =
                        IF LiveRev(p) THEN ServerResult(data.full_text)
                        ELSE currentServerResult
                  /\ reviewIsLoading' = FALSE
                  /\ revs' = [revs EXCEPT ![p] = IdleRev]
                  /\ UNCHANGED reviewAlerts
             ELSE /\ UploadFailed(p)
                  /\ UNCHANGED currentServerResult
    /\ UNCHANGED <<pointVars, audioDuration, showTitleInput, actionablePoints,
                   isLoadingActionable, pendingOK, revTaps, lastExtract>>

\* The first 'Save Recording' button, line 655, shown once there is a result.
ShowTitleInput ==
    /\ CanPress
    /\ ~isSavedRecording /\ ~showTitleInput /\ currentServerResult.set
    /\ showTitleInput' = TRUE
    /\ revTaps' = revTaps + 1
    /\ UNCHANGED <<pointVars, audioDuration, currentServerResult, reviewIsLoading,
                   actionablePoints, isLoadingActionable, pendingOK,
                   reviewAlerts, revs, lastExtract>>

\* The 'Cancel' button, line 669.
HideTitleInput ==
    /\ CanPress
    /\ ~isSavedRecording /\ showTitleInput
    /\ showTitleInput' = FALSE
    /\ revTaps' = revTaps + 1
    /\ UNCHANGED <<pointVars, audioDuration, currentServerResult, reviewIsLoading,
                   actionablePoints, isLoadingActionable, pendingOK,
                   reviewAlerts, revs, lastExtract>>

\* handleSave, lines 373-385: what is handed to saveRecording.
RecordingData(title) ==
    [title |-> Trim(title),
     audioUri |-> audioUri,
     audioDuration |-> audioDuration,
     transcription |-> IF currentServerResult.set
                       THEN Obj(currentServerResult.full_text)
                       ELSE Undefined,
     actionablePoints |-> IF Len(actionablePoints) > 0
                          THEN Arr(actionablePoints)
                          ELSE Undefined]

\* handleSaveRecording, lines 572-580, from the second 'Save Recording'
\* button, line 666, and handleSave up to its await, lines 359-388: without a
\* title or a duration an alert is shown; otherwise the busy flag is raised
\* and saveRecording is called.
handleSaveRecording(s, title, now) ==
    /\ CanPress
    /\ ~isSavedRecording /\ showTitleInput
    /\ revTaps' = revTaps + 1
    /\ IF Trim(title) = "" \/ audioDuration = 0
       THEN /\ ReviewAlert("Error")
            /\ UNCHANGED <<storeVars, reviewIsLoading, lastSave>>
       ELSE /\ saveRecording_call(s, RecordingData(title), now)
            /\ reviewIsLoading' = TRUE
            /\ lastSave' = "none"
            /\ UNCHANGED reviewAlerts
    /\ UNCHANGED <<serverResult, confirm, lastDelete, hist, audioDuration,
                   currentServerResult, showTitleInput, actionablePoints,
                   isLoadingActionable, pendingOK, revs, lastExtract>>

\* handleSave, lines 388-400, runs on when the saveRecording in slot s has
\* settled in this step: the 'Success' alert with its OK handler or the
\* 'Error' alert is shown, and the busy flag is lowered.
handleSave_settles(s) ==
    /\ IF ops'[s].kind # "idle"
       THEN UNCHANGED <<reviewAlerts, pendingOK, reviewIsLoading, lastSave>>
       ELSE /\ reviewIsLoading' = FALSE
            /\ IF last'.threw
               THEN /\ ReviewAlert("Error")
                    /\ lastSave' = "Error"
                    /\ UNCHANGED pendingOK
               ELSE /\ ReviewAlert("Success")
                    /\ lastSave' = "Success"
                    /\ pendingOK' = pendingOK + 1
    /\ UNCHANGED <<serverResult, confirm, lastDelete, hist, audioDuration,
                   currentServerResult, showTitleInput, actionablePoints,
                   isLoadingActionable, revs, revTaps, lastExtract>>

\* The OK of the 'Success' alert, line 393: navigation.goBack().
PressOK ==
    /\ pendingOK > 0
    /\ pendingOK' = pendingOK - 1
    /\ IF mounted THEN GoBack ELSE UNCHANGED playVars
    /\ UNCHANGED <<pointVars, audioDuration, currentServerResult, showTitleInput,
                   reviewIsLoading, actionablePoints, isLoadingActionable,
                   reviewAlerts, revs, revTaps, lastExtract>>

\* extractActionablePoints, line 434: setActionablePoints(data.actionablePoints).
SetActionablePoints_Append(points, value) == points \o value

SetActionablePoints(points, value) == value

\* line 433: data.ok && data.actionablePoints; an array, even an empty one,
\* is truthy.
ExtractionSucceeded(data) == data.ok /\ data.actionablePoints # Undefined

\* extractActionablePoints, lines 407-426, from the button of line 865, which
\* is disabled while an extraction runs: without a transcription text an
\* alert is shown, otherwise the flag is raised and the request is sent.
extractActionablePoints_call(p) ==
    /\ CanPress
    /\ ~isLoadingActionable
    /\ revTaps' = revTaps + 1
    /\ lastExtract' = NoExtract
    /\ IF ~currentServerResult.set \/ currentServerResult.full_text = ""
       THEN /\ ReviewAlert("No Transcription")
            /\ UNCHANGED <<revs, isLoadingActionable>>
       ELSE /\ FirstRevSlot(p)
            /\ revs' = [revs EXCEPT ![p] = [IdleRev EXCEPT !.kind = "extract",
                                                           !.pc = "fetch",
                                                           !.inst = instance]]
            /\ isLoadingActionable' = TRUE
            /\ UNCHANGED reviewAlerts
    /\ UNCHANGED <<pointVars, audioDuration, currentServerResult, showTitleInput,
                   reviewIsLoading, actionablePoints, pendingOK>>

\* lines 442-448: the catch shows the alert, the finally lowers the flag.
ExtractFailed(p, why) ==
    /\ ReviewAlert("Error")
    /\ isLoadingActionable' = FALSE
    /\ revs' = [revs EXCEPT ![p] = IdleRev]
    /\ lastExtract' = [kind |-> "extract", outcome |-> why, live |-> LiveRev(p),
                       before |-> actionablePoints, response |-> <<>>,
                       after |-> actionablePoints]
    /\ UNCHANGED actionablePoints

\* lines 421-430: fetch settles: rejected, or with a response whose body is
\* then read as text (status not ok) or as JSON.
extractActionablePoints_fetch(p) ==
    /\ revs[p].kind = "extract" /\ revs[p].pc = "fetch"
    /\ \/ ExtractFailed(p, "fetch")
       \/ /\ \E pc \in {"text", "json"} : revs' = [revs EXCEPT ![p].pc = pc]
          /\ UNCHANGED <<reviewAlerts, isLoadingActionable, lastExtract,
                         actionablePoints>>
    /\ UNCHANGED <<pointVars, audioDuration, currentServerResult, showTitleInput,
                   reviewIsLoading, pendingOK, revTaps>>

\* lines 427-430: the text of a response that is not ok settles, and the
\* error is thrown.
extractActionablePoints_text(p) ==
    /\ revs[p].kind = "extract" /\ revs[p].pc = "text"
    /\ ExtractFailed(p, "http")
    /\ UNCHANGED <<pointVars, audioDuration, currentServerResult, showTitleInput,
                   reviewIsLoading, pendingOK, revTaps>>

\* lines 430-448: resp.json() settles; the points of an answer that succeeded
\* are put into the state, anything else is thrown.
extractActionablePoints_json(p) ==
    /\ revs[p].kind = "extract" /\ revs[p].pc = "json"
    /\ \/ ExtractFailed(p, "json")
       \/ \E data \in ExtractData :
             IF ExtractionSucceeded(data)
             THEN /\ actionablePoints' =
                        IF LiveRev(p)
                        THEN SetActionablePoints(actionablePoints, data.actionablePoints.v)
                        ELSE actionablePoints
                  /\ ReviewAlert("Success")
                  /\ isLoadingActionable' = FALSE
                  /\ revs' = [revs EXCEPT ![p] = IdleRev]
                  /\ lastExtract' = [kind |-> "extract", outcome |-> "ok",
                                     live |-> LiveRev(p),
                                     before |-> actionablePoints,
                                     response |-> data.actionablePoints.v,
                                     after |-> actionablePoints']
             ELSE ExtractFailed(p, IF data.ok THEN "missing" ELSE "notOk")
    /\ UNCHANGED <<pointVars, audioDuration, currentServerResult, showTitleInput,
                   reviewIsLoading, pendingOK, revTaps>>

\* ------------------------------------ Review screen: deleting a point
\* The 'Delete Actionable Point' alert: the handler of its Delete button
\* closes over the render in which the card's button was pressed.
NoConfirm ==
    [open |-> FALSE, pointId |-> "", points |-> <<>>, saved |-> FALSE,
     hasResult |-> FALSE]

NoDelete ==
    [kind |-> "none", pointId |-> "", before |-> <<>>, captured |-> <<>>,
     after |-> <<>>, live |-> FALSE, saved |-> FALSE, storage |-> FALSE,
     persisted |-> FALSE]

PointIds(points) == {points[i] : i \in 1..Len(points)}

\* line 466: actionablePoints.filter(point => point.id !== pointId)
FilterOutPoint(points, pointId) == SelectSeq(points, LAMBDA pt : pt # pointId)

\* deleteActionablePoint, lines 451-462, from the delete button of a point's
\* card, line 897: the alert is shown.
deleteActionablePoint(pointId) ==
    /\ CanPress
    /\ pointId \in PointIds(actionablePoints)
    /\ revTaps' = revTaps + 1
    /\ confirm' = [open |-> TRUE, pointId |-> pointId,
                   points |-> actionablePoints, saved |-> isSavedRecording,
                   hasResult |-> currentServerResult.set]
    /\ lastDelete' = NoDelete
    /\ UNCHANGED <<serverResult, lastSave, hist, audioDuration,
                   currentServerResult, showTitleInput, reviewIsLoading,
                   actionablePoints, isLoadingActionable, pendingOK,
                   reviewAlerts, revs, lastExtract>>

\* The alert's Cancel button, lines 457-460.
confirm_Cancel ==
    /\ confirm.open
    /\ confirm' = NoConfirm
    /\ UNCHANGED <<serverResult, lastDelete, lastSave, hist, audioDuration,
                   currentServerResult, showTitleInput, reviewIsLoading,
                   actionablePoints, isLoadingActionable, pendingOK,
                   reviewAlerts, revs, revTaps, lastExtract>>

\* line 475: recordings.findIndex(r => r.audioUri === audioUri &&
\* r.audioDuration === audioDuration), 0 standing for -1.
FindIndex(recordings, key) ==
    LET hits == {i \in 1..Len(recordings) :
                   /\ recordings[i].audioUri = key[1]
                   /\ recordings[i].audioDuration = key[2]}
    IN  IF hits = {} THEN 0
        ELSE CHOOSE i \in hits : \A j \in hits : i <= j

\* A handler that writes the list back whatever the screen was opened with.
WritesBack_Always(c) == TRUE

\* line 470: isSavedRecording && currentServerResult
WritesBack(c) == c.saved /\ c.hasResult

\* The alert's Delete button, lines 461-472: the point is filtered out of
\* the list the handler closed over, the result becomes the state and, for
\* a saved recording with a result, getRecordings is called.
confirm_Delete ==
    /\ confirm.open
    /\ confirm' = NoConfirm
    /\ actionablePoints' =
          IF mounted
          THEN SetActionablePoints(actionablePoints,
                                   FilterOutPoint(confirm.points, confirm.pointId))
          ELSE actionablePoints
    /\ IF WritesBack(confirm)
       THEN /\ \E s \in Slots :
                 Invoke(s, [IdleOp EXCEPT
                              !.kind = "points", !.pc = "getRecordings",
                              !.key = <<audioUri, audioDuration>>,
                              !.points = FilterOutPoint(confirm.points,
                                                        confirm.pointId)])
            /\ clean' = (clean /\ \A t \in Slots : Idle(t))
            /\ UNCHANGED <<clock, blob, files, returned>>
       ELSE UNCHANGED storeVars
    /\ lastDelete' = [kind |-> "deletePoint", pointId |-> confirm.pointId,
                      before |-> actionablePoints,
                      captured |-> confirm.points,
                      after |-> actionablePoints', live |-> mounted,
                      saved |-> confirm.saved, storage |-> calls' # calls,
                      persisted |->
                          /\ Parseable(blob)
                          /\ FindIndex(JSONparse(blob),
                                       <<audioUri, audioDuration>>) # 0]
    /\ UNCHANGED <<serverResult, lastSave, hist, audioDuration,
                   currentServerResult, showTitleInput, reviewIsLoading,
                   isLoadingActionable, pendingOK, reviewAlerts, revs,
                   revTaps, lastExtract>>

\* A version that stores the list as it is, an empty one included.
WithPoints_KeepsEmpty(recordings, i, points) ==
    [recordings EXCEPT ![i].actionablePoints = Arr(points)]

\* line 480: an empty list is stored as undefined.
WithPoints(recordings, i, points) ==
    [recordings EXCEPT ![i].actionablePoints =
        IF Len(points) > 0 THEN Arr(points) ELSE Undefined]

\* lines 473-489: getRecordings settles (never rejecting); when a record with
\* the screen's audioUri and audioDuration is found its points are replaced
\* and the write of the whole collection is requested, otherwise the
\* handler only logs.
deletePoint_getRecordings(s) ==
    /\ ops[s].kind = "points" /\ ops[s].pc = "getRecordings"
    /\ \E read \in ReadOutcomes :
         LET recordings == GetRecordingsResult(read)
             recordingIndex == FindIndex(recordings, ops[s].key)
         IN  IF recordingIndex # 0
             THEN /\ ops' = [ops EXCEPT
                              ![s].list = WithPoints(recordings, recordingIndex,
                                                     ops[s].points),
                              ![s].readKind = read.kind,
                              ![s].pc = "setItem"]
                  /\ UNCHANGED last
             ELSE Settle(s, FALSE, <<>>, read.kind)
    /\ UNCHANGED <<clock, blob, files, calls, returned, clean>>

\* lines 484-493: the write settles; a rejection is caught and only logged.
deletePoint_setItem(s) ==
    /\ ops[s].kind = "points" /\ ops[s].pc = "setItem"
    /\ \/ /\ UNCHANGED blob
          /\ clean' = FALSE
          /\ Settle(s, FALSE, <<>>, ops[s].readKind)
       \/ /\ blob' = JSONstringify(ops[s].list)
          /\ UNCHANGED clean
          /\ SettleWritten(s, FALSE, <<>>, ops[s].readKind)
    /\ UNCHANGED <<clock, files, calls, returned>>

\* ------------------------------------------------------- History screen
\* handlePlayRecording between the press and its navigation: recording is
\* the item pressed.  opened only records history: the item the Review
\* screen was opened with last.
NoHist == [pc |-> "idle", recording |-> <<>>, opened |-> <<>>]

\* The list of the History screen, loaded by getRecordings (HistoryScreen.tsx,
\* lines 58-65) when the screen comes into focus.
HistoryList ==
    LET recordings == GetRecordingsResult(blob)
    IN  {recordings[i] : i \in 1..Len(recordings)}

\* A version that hands on another locator for a record without a file.
ensureAudioFileExists_Migrated(item, exists) ==
    IF exists THEN item.audioUri ELSE PermanentUri(0)

\* ensureAudioFileExists, part_002 lines 437-457: the locator of the record
\* is returned whether getInfoAsync reports the file, reports none, or is
\* rejected.
ensureAudioFileExists(item, exists) ==
    IF exists THEN item.audioUri ELSE item.audioUri

\* HistoryScreen.tsx lines 121-128: a record with a transcription is handed
\* over with a result whose ok is true, any other with null.
\* A version that leaves out `ok: true`.
HistoryServerResult_NoOk(item) ==
    IF item.transcription.k = "object"
    THEN [set |-> TRUE, ok |-> FALSE]
    ELSE [set |-> FALSE, ok |-> FALSE]

HistoryServerResult(item) ==
    IF item.transcription.k = "object"
    THEN [set |-> TRUE, ok |-> TRUE]
    ELSE [set |-> FALSE, ok |-> FALSE]

\* part_000 line 56: useState(serverResult)
InitialServerResult(item) ==
    IF item.transcription.k = "object"
    THEN ServerResult(item.transcription.v[1])
    ELSE NoResult

\* part_000 line 57: useState(savedActionablePoints || [])
InitialActionablePoints(item) ==
    IF item.actionablePoints.k = "array"
    THEN item.actionablePoints.v
    ELSE <<>>

\* handlePlayRecording, HistoryScreen.tsx lines 111-116, from a press on an
\* item of the list, line 148, while the History screen is on top:
\* ensureAudioFileExists is called, which awaits getInfoAsync.
handlePlayRecording_call(item) ==
    /\ ~mounted
    /\ pendingOK = 0 /\ ~confirm.open
    /\ hist.pc = "idle"
    /\ playTaps < MaxPlayTaps
    /\ item \in HistoryList
    /\ hist' = [hist EXCEPT !.pc = "getInfo", !.recording = <<item>>]
    /\ UNCHANGED <<serverResult, confirm, lastDelete, lastSave, audioDuration,
                   currentServerResult, showTitleInput, reviewIsLoading,
                   actionablePoints, isLoadingActionable, pendingOK,
                   reviewAlerts, revs, revTaps, lastExtract>>
    /\ UNCHANGED playVars

\* lines 116-138: ensureAudioFileExists settles and the Review screen is
\* opened with the record's locator, duration, result and points; it mounts
\* with the initial state of part_000 lines 49-59.
handlePlayRecording_getInfo ==
    /\ hist.pc = "getInfo"
    /\ LET item == hist.recording[1]
           validAudioUri ==
               ensureAudioFileExists(item, item.audioUri \in files)
       IN  /\ Open(validAudioUri)
           /\ audioDuration' = item.audioDuration
           /\ serverResult' = HistoryServerResult(item)
           /\ currentServerResult' = InitialServerResult(item)
           /\ actionablePoints' = InitialActionablePoints(item)
           /\ hist' = [pc |-> "idle", recording |-> <<>>,
                       opened |-> <<item>>]
    /\ showTitleInput' = FALSE
    /\ reviewIsLoading' = FALSE
    /\ isLoadingActionable' = FALSE
    /\ lastDelete' = NoDelete
    /\ lastSave' = "none"
    /\ UNCHANGED <<confirm, pendingOK, reviewAlerts, revs, revTaps, lastExtract>>

\* navigation.goBack(), from the back button of the stack's header or from
\* handleBack, part_000 lines 355-357.
handleBack ==
    /\ mounted
    /\ pendingOK = 0 /\ ~confirm.open
    /\ GoBack
    /\ UNCHANGED revVars

InitReview ==
    /\ serverResult = RouteServerResult
    /\ confirm = NoConfirm
    /\ lastDelete = NoDelete
    /\ lastSave = "none"
    /\ hist = NoHist
    /\ audioDuration = 0
    /\ currentServerResult = NoResult
    /\ showTitleInput = FALSE
    /\ reviewIsLoading = FALSE
    /\ actionablePoints = <<>>
    /\ isLoadingActionable = FALSE
    /\ pendingOK = 0
    /\ reviewAlerts = [t \in ReviewAlertTitles |-> 0]
    /\ revs = [p \in RevSlots |-> IdleRev]
    /\ revTaps = 0
    /\ lastExtract = NoExtract

\* ------------------------------------------------- overlapping writes
\* History only.  read[s] is the text the call in slot s read; stale[s]
\* whether another call has written since; earlier[s] what that call was,
\* had read and wrote; last is the write carried out last.
NoWrite ==
    [kind |-> "none", op |-> IdleOp, read |-> NoBlob, raced |-> FALSE,
     firstKind |-> "none", firstRead |-> NoBlob, firstWrote |-> NoBlob,
     wrote |-> NoBlob]

NoEarlier == [kind |-> "none", read |-> NoBlob, wrote |-> NoBlob]

InitRace ==
    race = [read |-> [s \in Slots |-> NoBlob],
            stale |-> [s \in Slots |-> FALSE],
            earlier |-> [s \in Slots |-> NoEarlier],
            last |-> NoWrite]

\* The calls read at the pcs getItem and getRecordings and write at setItem;
\* saveRecording reads once more, at verify, after its write.
HasRead(s) == ops[s].kind # "idle" /\ ops[s].pc \in {"setItem", "deleteAsync"}

Wrote(s) ==
    \/ ops'[s].kind # "idle" /\ ops'[s].writes > ops[s].writes
    \/ ops'[s].kind = "idle" /\ last'.writes > ops[s].writes

\* What the step of the call in slot s adds to the history.
RaceHistory(s) ==
    IF ops[s].pc \in {"getItem", "getRecordings"}
    THEN race' = [race EXCEPT
                    !.read[s] = IF ops'[s].kind = "idle" THEN NoBlob
                                ELSE IF ops'[s].readKind = "rejected" THEN ReadFailed
                                ELSE blob,
                    !.stale[s] = FALSE,
                    !.earlier[s] = NoEarlier]
    ELSE IF ops[s].pc = "setItem" /\ Wrote(s)
    THEN race' = [race EXCEPT
                    !.stale = [t \in Slots |-> t # s /\ (race.stale[t] \/ HasRead(t))],
                    !.earlier = [t \in Slots |->
                                   IF t # s /\ HasRead(t)
                                   THEN [kind |-> ops[s].kind, read |-> race.read[s],
                                         wrote |-> blob']
                                   ELSE race.earlier[t]],
                    !.last = [kind |-> ops[s].kind, op |-> ops[s],
                              read |-> race.read[s], raced |-> race.stale[s],
                              firstKind |-> race.earlier[s].kind,
                              firstRead |-> race.earlier[s].read,
                              firstWrote |-> race.earlier[s].wrote,
                              wrote |-> blob']]
    ELSE UNCHANGED race

\* ------------------------------------------------- recording statistics
\* The user's row of user_recording_stats: missing until the first upsert.
NoStats ==
    [exists |-> FALSE, total_time_recorded_ms |-> 0, recording_count |-> 0]

\* incrementRecordingTime, lines 471-524 of the storage module, for a signed-in
\* user when every request succeeds: the row is read, a missing row counting
\* as zeros, and upserted with the duration added and the count raised by one.
\* No screen and no function of the storage module calls it, so no action of
\* the model applies it.
IncrementedStats(stats, durationMs) ==
    [exists |-> TRUE,
     total_time_recorded_ms |-> stats.total_time_recorded_ms + durationMs,
     recording_count |-> stats.recording_count + 1]

InitStats == userStats = NoStats

\* ------------------------------------- the Review screen's playback alone
\* The Review screen's playback alone: the recordings' files exist, the index
\* and the Record screen are not touched.
InitPlayAlone ==
    /\ clock = 0
    /\ blob = NoBlob
    /\ files = AudioUris
    /\ ops = [s \in Slots |-> IdleOp]
    /\ calls = 0
    /\ returned = {}
    /\ last = NoCall
    /\ clean = TRUE
    /\ InitRecord
    /\ InitPlay
    /\ InitReview
    /\ InitStats
    /\ InitRace

NextPlay ==
    \/ (\E uri \in PlayUris : Open(uri)) /\ UNCHANGED <<storeVars, recVars, revVars, statVars, raceVars>>
    \/ (\E uri \in PlayUris : ChangeParams(uri)) /\ UNCHANGED <<storeVars, recVars, revVars, statVars, raceVars>>
    \/ (GoBack) /\ UNCHANGED <<storeVars, recVars, revVars, statVars, raceVars>>
    \/ (\E p \in PlaySlots : initializeAudio_setAudioMode(p)) /\ UNCHANGED <<storeVars, recVars, revVars, statVars, raceVars>>
    \/ (\E p \in PlaySlots : initializeAudio_getInfo(p)) /\ UNCHANGED <<storeVars, recVars, revVars, statVars, raceVars>>
    \/ (\E p \in PlaySlots : initializeAudio_load(p)) /\ UNCHANGED <<storeVars, recVars, revVars, statVars, raceVars>>
    \/ (\E p \in PlaySlots : initializeAudio_setIsMuted(p)) /\ UNCHANGED <<storeVars, recVars, revVars, statVars, raceVars>>
    \/ (\E p \in PlaySlots : initializeAudio_setVolume(p)) /\ UNCHANGED <<storeVars, recVars, revVars, statVars, raceVars>>
    \/ (\E p \in PlaySlots : cleanupAudio_getStatus(p)) /\ UNCHANGED <<storeVars, recVars, revVars, statVars, raceVars>>
    \/ (\E p \in PlaySlots : cleanupAudio_pause(p)) /\ UNCHANGED <<storeVars, recVars, revVars, statVars, raceVars>>
    \/ (\E p \in PlaySlots : cleanupAudio_unload(p)) /\ UNCHANGED <<storeVars, recVars, revVars, statVars, raceVars>>
    \/ (\E p \in PlaySlots : cleanupAudio_forceUnload(p)) /\ UNCHANGED <<storeVars, recVars, revVars, statVars, raceVars>>
    \/ (\E p \in PlaySlots : togglePlayPause_call(p)) /\ UNCHANGED <<storeVars, recVars, revVars, statVars, raceVars>>
    \/ (\E p \in PlaySlots : togglePlayPause_getStatus(p)) /\ UNCHANGED <<storeVars, recVars, revVars, statVars, raceVars>>
    \/ (\E p \in PlaySlots : togglePlayPause_pause(p)) /\ UNCHANGED <<storeVars, recVars, revVars, statVars, raceVars>>
    \/ (\E p \in PlaySlots : togglePlayPause_setPosition(p)) /\ UNCHANGED <<storeVars, recVars, revVars, statVars, raceVars>>
    \/ (\E p \in PlaySlots : togglePlayPause_setVolume(p)) /\ UNCHANGED <<storeVars, recVars, revVars, statVars, raceVars>>
    \/ (\E p \in PlaySlots : togglePlayPause_setIsMuted(p)) /\ UNCHANGED <<storeVars, recVars, revVars, statVars, raceVars>>
    \/ (\E p \in PlaySlots : togglePlayPause_play(p)) /\ UNCHANGED <<storeVars, recVars, revVars, statVars, raceVars>>
    \/ (\E p \in PlaySlots : progress_tick(p)) /\ UNCHANGED <<storeVars, recVars, revVars, statVars, raceVars>>
    \/ (\E p \in PlaySlots : progress_getStatus(p)) /\ UNCHANGED <<storeVars, recVars, revVars, statVars, raceVars>>
    \/ (\E h \in SoundIds, pos \in Positions : Advance(h, pos)) /\ UNCHANGED <<storeVars, recVars, revVars, statVars, raceVars>>

SpecPlayback == InitPlayAlone /\ [][NextPlay]_vars

\* ----------------------------- the Review screen's playback controls alone
\* The screen after it was opened on an existing file and initializeAudio
\* ran to its end: the Sound is loaded and paused at 0, and held by the
\* state.
ControlsStart ==
    /\ mounted = TRUE
    /\ instance = 1
    /\ audioUri = PermanentUri(1)
    /\ sound = 1
    /\ effectSound = 0
    /\ isPlaying = FALSE
    /\ audioProgress = 0
    /\ sounds = [h \in SoundIds |->
                   IF h = 1
                   THEN [NoSound EXCEPT !.state = "loaded", !.uri = PermanentUri(1)]
                   ELSE NoSound]
    /\ plays = [p \in PlaySlots |-> IdlePlay]
    /\ playTaps = 1
    /\ playAlerts = [t \in PlayAlertTitles |-> 0]
    /\ lastPlay = [NoPlay EXCEPT !.kind = "initializeAudio", !.snd = 1]
    /\ polling = 0

InitControls ==
    /\ clock = 0
    /\ blob = NoBlob
    /\ files = AudioUris
    /\ ops = [s \in Slots |-> IdleOp]
    /\ calls = 0
    /\ returned = {}
    /\ last = NoCall
    /\ clean = TRUE
    /\ InitRecord
    /\ ControlsStart
    /\ InitReview
    /\ InitStats
    /\ InitRace

NextControls ==
    \/ (\E p \in PlaySlots : togglePlayPause_call(p)) /\ UNCHANGED <<storeVars, recVars, revVars, statVars, raceVars>>
    \/ (\E p \in PlaySlots : togglePlayPause_getStatus(p)) /\ UNCHANGED <<storeVars, recVars, revVars, statVars, raceVars>>
    \/ (\E p \in PlaySlots : togglePlayPause_pause(p)) /\ UNCHANGED <<storeVars, recVars, revVars, statVars, raceVars>>
    \/ (\E p \in PlaySlots : togglePlayPause_setPosition(p)) /\ UNCHANGED <<storeVars, recVars, revVars, statVars, raceVars>>
    \/ (\E p \in PlaySlots : togglePlayPause_setVolume(p)) /\ UNCHANGED <<storeVars, recVars, revVars, statVars, raceVars>>
    \/ (\E p \in PlaySlots : togglePlayPause_setIsMuted(p)) /\ UNCHANGED <<storeVars, recVars, revVars, statVars, raceVars>>
    \/ (\E p \in PlaySlots : togglePlayPause_play(p)) /\ UNCHANGED <<storeVars, recVars, revVars, statVars, raceVars>>
    \/ (\E p \in PlaySlots, position \in SeekTargets : seekTo_call(p, position))
          /\ UNCHANGED <<storeVars, recVars, revVars, statVars, raceVars>>
    \/ (\E p \in PlaySlots : seekTo_getStatus(p)) /\ UNCHANGED <<storeVars, recVars, revVars, statVars, raceVars>>
    \/ (\E p \in PlaySlots : seekTo_setPosition(p)) /\ UNCHANGED <<storeVars, recVars, revVars, statVars, raceVars>>
    \/ (\E p \in PlaySlots : seekTo_play(p)) /\ UNCHANGED <<storeVars, recVars, revVars, statVars, raceVars>>
    \/ (\E p \in PlaySlots, seconds \in TopicStarts : playFrom_call(p, seconds))
          /\ UNCHANGED <<storeVars, recVars, revVars, statVars, raceVars>>
    \/ (\E p \in PlaySlots : playFrom_setPosition(p)) /\ UNCHANGED <<storeVars, recVars, revVars, statVars, raceVars>>
    \/ (\E p \in PlaySlots : playFrom_setIsMuted(p)) /\ UNCHANGED <<storeVars, recVars, revVars, statVars, raceVars>>
    \/ (\E p \in PlaySlots : playFrom_setVolume(p)) /\ UNCHANGED <<storeVars, recVars, revVars, statVars, raceVars>>
    \/ (\E p \in PlaySlots : playFrom_play(p)) /\ UNCHANGED <<storeVars, recVars, revVars, statVars, raceVars>>
    \/ (\E p \in PlaySlots : progress_tick(p)) /\ UNCHANGED <<storeVars, recVars, revVars, statVars, raceVars>>
    \/ (\E p \in PlaySlots : progress_getStatus(p)) /\ UNCHANGED <<storeVars, recVars, revVars, statVars, raceVars>>
    \/ (\E h \in SoundIds, pos \in Positions : Advance(h, pos)) /\ UNCHANGED <<storeVars, recVars, revVars, statVars, raceVars>>

SpecControls == InitControls /\ [][NextControls]_vars

\* ------------------------------------- the Review screen's workflow alone
\* The Review screen as stop() opens it for one capture, whose file exists;
\* the duration is the one the probe reported.  The playback is left aside.
\* ------------------------------------- the writers of the collection alone
\* The record the History screen opened the Review screen with,
\* HistoryScreen.tsx lines 121-135: it has a transcription and two points.
SavedRecording ==
    NewRecording([title |-> "t", audioUri |-> PermanentUri(1),
                  audioDuration |-> 1000, transcription |-> Obj("text"),
                  actionablePoints |-> Arr(<<"a", "b">>)], 0)

\* What the other screens save and delete meanwhile.
WriterFields ==
    [title : {"t"}, audioUri : {PermanentUri(0)}, audioDuration : {1000},
     transcription : {Undefined}, actionablePoints : {Undefined}]

\* One saveRecording has stored one record, and the Review screen is open on
\* it; saveRecording and deleteRecording are called as by the other screens.
InitWriters ==
    /\ clock = 0
    /\ blob = JSONstringify(<<SavedRecording>>)
    /\ files = AudioUris
    /\ ops = [s \in Slots |-> IdleOp]
    /\ calls = 1
    /\ returned = {SavedRecording}
    /\ last = NoCall
    /\ clean = TRUE
    /\ InitRecord
    /\ mounted = TRUE
    /\ instance = 1
    /\ audioUri = SavedRecording.audioUri
    /\ sound = 0
    /\ effectSound = 0
    /\ isPlaying = FALSE
    /\ audioProgress = 0
    /\ sounds = [h \in SoundIds |-> NoSound]
    /\ plays = [p \in PlaySlots |-> IdlePlay]
    /\ playTaps = 0
    /\ playAlerts = [t \in PlayAlertTitles |-> 0]
    /\ lastPlay = NoPlay
    /\ polling = 0
    /\ audioDuration = SavedRecording.audioDuration
    /\ serverResult = [set |-> TRUE, ok |-> TRUE]
    /\ currentServerResult = ServerResult(SavedRecording.transcription.v[1])
    /\ actionablePoints = SavedRecording.actionablePoints.v
    /\ showTitleInput = FALSE
    /\ reviewIsLoading = FALSE
    /\ isLoadingActionable = FALSE
    /\ pendingOK = 0
    /\ reviewAlerts = [t \in ReviewAlertTitles |-> 0]
    /\ revs = [p \in RevSlots |-> IdleRev]
    /\ revTaps = 0
    /\ lastExtract = NoExtract
    /\ confirm = NoConfirm
    /\ lastDelete = NoDelete
    /\ lastSave = "none"
    /\ hist = NoHist
    /\ InitStats
    /\ InitRace

NextWriters ==
    \/ (\E s \in Slots, fields \in WriterFields, now \in 0..MaxClock :
          saveRecording_call(s, fields, now))
          /\ UNCHANGED <<recVars, playVars, revVars, statVars, race>>
    \/ (\E s \in Slots : saveRecording_getItem(s) /\ RaceHistory(s))
          /\ UNCHANGED <<recVars, playVars, revVars, statVars>>
    \/ (\E s \in Slots : saveRecording_setItem(s) /\ RaceHistory(s))
          /\ UNCHANGED <<recVars, playVars, revVars, statVars>>
    \/ (\E s \in Slots : saveRecording_verify(s))
          /\ UNCHANGED <<recVars, playVars, revVars, statVars, race>>
    \/ (\E s \in Slots : deleteRecording_call(s, SavedRecording.id))
          /\ UNCHANGED <<recVars, playVars, revVars, statVars, race>>
    \/ (\E s \in Slots : deleteRecording_getRecordings(s) /\ RaceHistory(s))
          /\ UNCHANGED <<recVars, playVars, revVars, statVars>>
    \/ (\E s \in Slots : deleteRecording_deleteAsync(s))
          /\ UNCHANGED <<recVars, playVars, revVars, statVars, race>>
    \/ (\E s \in Slots : deleteRecording_setItem(s) /\ RaceHistory(s))
          /\ UNCHANGED <<recVars, playVars, revVars, statVars>>
    \/ (\E pointId \in {"a", "b"} : deleteActionablePoint(pointId))
          /\ UNCHANGED <<storeVars, recVars, playVars, statVars, race>>
    \/ confirm_Cancel /\ UNCHANGED <<storeVars, recVars, playVars, statVars, race>>
    \/ confirm_Delete /\ UNCHANGED <<recVars, playVars, statVars, race>>
    \/ (\E s \in Slots : deletePoint_getRecordings(s) /\ RaceHistory(s))
          /\ UNCHANGED <<recVars, playVars, revVars, statVars>>
    \/ (\E s \in Slots : deletePoint_setItem(s) /\ RaceHistory(s))
          /\ UNCHANGED <<recVars, playVars, revVars, statVars>>

SpecWriters == InitWriters /\ [][NextWriters]_vars

\* ------------------------------------------- the History screen alone
\* A record whose audio file is gone.
LostRecording ==
    NewRecording([title |-> "t", audioUri |-> PermanentUri(2),
                  audioDuration |-> 1000, transcription |-> Obj("text"),
                  actionablePoints |-> Arr(<<"c">>)], 1)

HistoryBlob == JSONstringify(<<LostRecording, SavedRecording>>)

\* The History screen is on top, and the collection holds two records saved
\* from the Review screen, the later one without its file.
InitHistory ==
    /\ clock = 1
    /\ blob = HistoryBlob
    /\ files = AudioUris
    /\ ops = [s \in Slots |-> IdleOp]
    /\ calls = 0
    /\ returned = {}
    /\ last = NoCall
    /\ clean = TRUE
    /\ InitRecord
    /\ InitPlay
    /\ InitReview
    /\ InitStats
    /\ InitRace

\* The user leaves a screen once the calls it started have settled.
Quiet == AllPlaysIdle /\ \A s \in Slots : Idle(s)

NextHistory ==
    \/ (Quiet /\ \E item \in HistoryList : handlePlayRecording_call(item))
          /\ UNCHANGED <<storeVars, recVars, statVars, raceVars>>
    \/ handlePlayRecording_getInfo /\ UNCHANGED <<storeVars, recVars, statVars, raceVars>>
    \/ (\E p \in PlaySlots : initializeAudio_setAudioMode(p))
          /\ UNCHANGED <<storeVars, recVars, revVars, statVars, raceVars>>
    \/ (\E p \in PlaySlots : initializeAudio_getInfo(p))
          /\ UNCHANGED <<storeVars, recVars, revVars, statVars, raceVars>>
    \/ (\E p \in PlaySlots : initializeAudio_load(p))
          /\ UNCHANGED <<storeVars, recVars, revVars, statVars, raceVars>>
    \/ (\E p \in PlaySlots : initializeAudio_setIsMuted(p))
          /\ UNCHANGED <<storeVars, recVars, revVars, statVars, raceVars>>
    \/ (\E p \in PlaySlots : initializeAudio_setVolume(p))
          /\ UNCHANGED <<storeVars, recVars, revVars, statVars, raceVars>>
    \/ (Quiet /\ handleBack) /\ UNCHANGED <<storeVars, recVars, statVars, raceVars>>
    \/ (\E pointId \in {"a", "b", "c"} : deleteActionablePoint(pointId))
          /\ UNCHANGED <<storeVars, recVars, playVars, statVars, raceVars>>
    \/ confirm_Cancel /\ UNCHANGED <<storeVars, recVars, playVars, statVars, raceVars>>
    \/ confirm_Delete /\ UNCHANGED <<recVars, playVars, statVars, raceVars>>
    \/ (\E s \in Slots : deletePoint_getRecordings(s))
          /\ UNCHANGED <<recVars, playVars, revVars, statVars, raceVars>>
    \/ (\E s \in Slots : deletePoint_setItem(s))
          /\ UNCHANGED <<recVars, playVars, revVars, statVars, raceVars>>

SpecHistory == InitHistory /\ [][NextHistory]_vars

\* A record saved from an earlier Review screen, for another audio file.
EarlierRecording ==
    NewRecording([title |-> "t", audioUri |-> PermanentUri(1),
                  audioDuration |-> 1000, transcription |-> Obj("text"),
                  actionablePoints |-> Undefined], 0)

\* The Review screen as stop() opened it, and the same screen after an
\* upload and an extraction have put a result and two points into its state.

InitReviewAlone ==
    /\ clock = 0
    /\ blob \in {NoBlob, JSONstringify(<<EarlierRecording>>)}
    /\ files = IF blob = NoBlob THEN {PermanentUri(0)} ELSE AudioUris
    /\ ops = [s \in Slots |-> IdleOp]
    /\ calls = 0
    /\ returned = {}
    /\ last = NoCall
    /\ clean = TRUE
    /\ InitRecord
    /\ mounted = TRUE
    /\ instance = 1
    /\ audioUri = PermanentUri(0)
    /\ sound = 0
    /\ effectSound = 0
    /\ isPlaying = FALSE
    /\ audioProgress = 0
    /\ sounds = [h \in SoundIds |-> NoSound]
    /\ plays = [p \in PlaySlots |-> IdlePlay]
    /\ playTaps = 0
    /\ playAlerts = [t \in PlayAlertTitles |-> 0]
    /\ lastPlay = NoPlay
    /\ polling = 0
    /\ audioDuration \in ProbedDurations
    /\ \/ /\ currentServerResult = NoResult
          /\ actionablePoints = <<>>
       \/ /\ currentServerResult = ServerResult("text")
          /\ actionablePoints = <<"a", "b">>
    /\ showTitleInput = FALSE
    /\ reviewIsLoading = FALSE
    /\ isLoadingActionable = FALSE
    /\ pendingOK = 0
    /\ reviewAlerts = [t \in ReviewAlertTitles |-> 0]
    /\ revs = [p \in RevSlots |-> IdleRev]
    /\ revTaps = 0
    /\ lastExtract = NoExtract
    /\ serverResult = RouteServerResult
    /\ confirm = NoConfirm
    /\ lastDelete = NoDelete
    /\ lastSave = "none"
    /\ hist = NoHist
    /\ InitStats
    /\ InitRace

NextReview ==
    \/ (\E p \in RevSlots : upload_call(p)) /\ UNCHANGED <<storeVars, recVars, playVars, statVars, raceVars>>
    \/ (\E p \in RevSlots : upload_getInfo(p)) /\ UNCHANGED <<storeVars, recVars, playVars, statVars, raceVars>>
    \/ (\E p \in RevSlots : upload_readAsString(p)) /\ UNCHANGED <<storeVars, recVars, playVars, statVars, raceVars>>
    \/ (\E p \in RevSlots : upload_fetch(p)) /\ UNCHANGED <<storeVars, recVars, playVars, statVars, raceVars>>
    \/ (\E p \in RevSlots : upload_text(p)) /\ UNCHANGED <<storeVars, recVars, playVars, statVars, raceVars>>
    \/ (\E p \in RevSlots : upload_json(p)) /\ UNCHANGED <<storeVars, recVars, playVars, statVars, raceVars>>
    \/ ShowTitleInput /\ UNCHANGED <<storeVars, recVars, playVars, statVars, raceVars>>
    \/ HideTitleInput /\ UNCHANGED <<storeVars, recVars, playVars, statVars, raceVars>>
    \/ (\E s \in Slots, title \in Titles, now \in 0..MaxClock :
          handleSaveRecording(s, title, now)) /\ UNCHANGED <<recVars, playVars, statVars, raceVars>>
    \/ (\E s \in Slots : saveRecording_getItem(s) /\ handleSave_settles(s)) /\ UNCHANGED <<recVars, playVars, statVars, raceVars>>
    \/ (\E s \in Slots : saveRecording_setItem(s) /\ handleSave_settles(s)) /\ UNCHANGED <<recVars, playVars, statVars, raceVars>>
    \/ (\E s \in Slots : saveRecording_verify(s) /\ handleSave_settles(s)) /\ UNCHANGED <<recVars, playVars, statVars, raceVars>>
    \/ PressOK /\ UNCHANGED <<storeVars, recVars, statVars, raceVars>>
    \/ (\E p \in RevSlots : extractActionablePoints_call(p)) /\ UNCHANGED <<storeVars, recVars, playVars, statVars, raceVars>>
    \/ (\E p \in RevSlots : extractActionablePoints_fetch(p)) /\ UNCHANGED <<storeVars, recVars, playVars, statVars, raceVars>>
    \/ (\E p \in RevSlots : extractActionablePoints_text(p)) /\ UNCHANGED <<storeVars, recVars, playVars, statVars, raceVars>>
    \/ (\E p \in RevSlots : extractActionablePoints_json(p)) /\ UNCHANGED <<storeVars, recVars, playVars, statVars, raceVars>>
    \/ (\E pointId \in {"a", "b", "c"} : deleteActionablePoint(pointId))
          /\ UNCHANGED <<storeVars, recVars, playVars, statVars, raceVars>>
    \/ confirm_Cancel /\ UNCHANGED <<storeVars, recVars, playVars, statVars, raceVars>>
    \/ confirm_Delete /\ UNCHANGED <<recVars, playVars, statVars, raceVars>>

SpecReview == InitReviewAlone /\ [][NextReview]_vars

\* ------------------------------- from the Review screen to the History screen
\* A recording is reviewed and saved, and then opened from the History
\* screen.  The screen opened by the Record screen is on top, on an empty
\* collection, before its upload or after its upload and its extraction.
InitLifecycle ==
    /\ clock = 0
    /\ blob = NoBlob
    /\ files = {PermanentUri(0)}
    /\ ops = [s \in Slots |-> IdleOp]
    /\ calls = 0
    /\ returned = {}
    /\ last = NoCall
    /\ clean = TRUE
    /\ InitRecord
    /\ mounted = TRUE
    /\ instance = 1
    /\ audioUri = PermanentUri(0)
    /\ sound = 0
    /\ effectSound = 0
    /\ isPlaying = FALSE
    /\ audioProgress = 0
    /\ sounds = [h \in SoundIds |-> NoSound]
    /\ plays = [p \in PlaySlots |-> IdlePlay]
    /\ playTaps = 0
    /\ playAlerts = [t \in PlayAlertTitles |-> 0]
    /\ lastPlay = NoPlay
    /\ polling = 0
    /\ audioDuration = 3000
    /\ \/ /\ currentServerResult = NoResult
          /\ actionablePoints = <<>>
       \/ /\ currentServerResult = ServerResult("text")
          /\ actionablePoints = <<"a", "b">>
    /\ showTitleInput = FALSE
    /\ reviewIsLoading = FALSE
    /\ isLoadingActionable = FALSE
    /\ pendingOK = 0
    /\ reviewAlerts = [t \in ReviewAlertTitles |-> 0]
    /\ revs = [p \in RevSlots |-> IdleRev]
    /\ revTaps = 0
    /\ lastExtract = NoExtract
    /\ serverResult = RouteServerResult
    /\ confirm = NoConfirm
    /\ lastDelete = NoDelete
    /\ lastSave = "none"
    /\ hist = NoHist
    /\ InitStats
    /\ InitRace

\* The upload, the save and its OK, and what the History screen adds.  Save
\* is pressed here while nothing else is in flight; a second press during a
\* save is part of SpecReview.
NextLifecycle ==
    \/ (\E p \in RevSlots : upload_call(p)) /\ UNCHANGED <<storeVars, recVars, playVars, statVars, raceVars>>
    \/ (\E p \in RevSlots : upload_getInfo(p)) /\ UNCHANGED <<storeVars, recVars, playVars, statVars, raceVars>>
    \/ (\E p \in RevSlots : upload_readAsString(p)) /\ UNCHANGED <<storeVars, recVars, playVars, statVars, raceVars>>
    \/ (\E p \in RevSlots : upload_fetch(p)) /\ UNCHANGED <<storeVars, recVars, playVars, statVars, raceVars>>
    \/ (\E p \in RevSlots : upload_text(p)) /\ UNCHANGED <<storeVars, recVars, playVars, statVars, raceVars>>
    \/ (\E p \in RevSlots : upload_json(p)) /\ UNCHANGED <<storeVars, recVars, playVars, statVars, raceVars>>
    \/ ShowTitleInput /\ UNCHANGED <<storeVars, recVars, playVars, statVars, raceVars>>
    \/ (Quiet /\ \E s \in Slots, title \in Titles, now \in 0..MaxClock :
          handleSaveRecording(s, title, now)) /\ UNCHANGED <<recVars, playVars, statVars, raceVars>>
    \/ (\E s \in Slots : saveRecording_getItem(s) /\ handleSave_settles(s)) /\ UNCHANGED <<recVars, playVars, statVars, raceVars>>
    \/ (\E s \in Slots : saveRecording_setItem(s) /\ handleSave_settles(s)) /\ UNCHANGED <<recVars, playVars, statVars, raceVars>>
    \/ (\E s \in Slots : saveRecording_verify(s) /\ handleSave_settles(s)) /\ UNCHANGED <<recVars, playVars, statVars, raceVars>>
    \/ PressOK /\ UNCHANGED <<storeVars, recVars, statVars, raceVars>>
    \/ NextHistory

SpecLifecycle == InitLifecycle /\ [][NextLifecycle]_vars

\* ------------------------------------------- the Record screen alone
\* The Record screen alone: no file exists yet and the index is not touched.
InitRecordAlone ==
    /\ clock = 0
    /\ blob = NoBlob
    /\ files = {}
    /\ ops = [s \in Slots |-> IdleOp]
    /\ calls = 0
    /\ returned = {}
    /\ last = NoCall
    /\ clean = TRUE
    /\ InitRecord
    /\ InitPlay
    /\ InitReview
    /\ InitStats
    /\ InitRace

NextRecord ==
    \/ \E p \in ProcSlots : start_call(p) /\ UNCHANGED <<blob, ops, calls, returned, last, clean, playVars, revVars, statVars, raceVars>>
    \/ \E p \in ProcSlots : start_permission(p) /\ UNCHANGED <<blob, ops, calls, returned, last, clean, playVars, revVars, statVars, raceVars>>
    \/ \E p \in ProcSlots : start_audioMode(p) /\ UNCHANGED <<blob, ops, calls, returned, last, clean, playVars, revVars, statVars, raceVars>>
    \/ \E p \in ProcSlots : start_prepare(p) /\ UNCHANGED <<blob, ops, calls, returned, last, clean, playVars, revVars, statVars, raceVars>>
    \/ \E p \in ProcSlots : start_startAsync(p) /\ UNCHANGED <<blob, ops, calls, returned, last, clean, playVars, revVars, statVars, raceVars>>
    \/ \E p \in ProcSlots : stop_call(p) /\ UNCHANGED <<blob, ops, calls, returned, last, clean, playVars, revVars, statVars, raceVars>>
    \/ \E p \in ProcSlots, now \in 0..MaxClock :
          stop_stopAndUnload(p, now) /\ UNCHANGED <<blob, ops, calls, returned, last, clean, playVars, revVars, statVars, raceVars>>
    \/ \E p \in ProcSlots : stop_copy(p) /\ UNCHANGED <<blob, ops, calls, returned, last, clean, playVars, revVars, statVars, raceVars>>
    \/ \E p \in ProcSlots : stop_deleteTemp(p) /\ UNCHANGED <<blob, ops, calls, returned, last, clean, playVars, revVars, statVars, raceVars>>
    \/ \E p \in ProcSlots : stop_load(p) /\ UNCHANGED <<blob, ops, calls, returned, last, clean, playVars, revVars, statVars, raceVars>>
    \/ \E p \in ProcSlots, d \in ProbedDurations :
          stop_getStatus(p, d) /\ UNCHANGED <<blob, ops, calls, returned, last, clean, playVars, revVars, statVars, raceVars>>
    \/ \E p \in ProcSlots : stop_unload(p) /\ UNCHANGED <<blob, ops, calls, returned, last, clean, playVars, revVars, statVars, raceVars>>

SpecRecord == InitRecordAlone /\ [][NextRecord]_vars

UsableUris ==
    IF \/ \E s \in Slots : ops[s].kind = "save"
       \/ blob.kind = "json" /\ blob.json # <<>>
       \/ files # AudioUris
    THEN AudioUris ELSE {PermanentUri(0)}

NextStore ==
    \/ \E s \in Slots, fields \in StoreFields, now \in 0..MaxClock :
          /\ fields.audioUri \in UsableUris
          /\ saveRecording_call(s, fields, now)
          /\ UNCHANGED <<recVars, playVars, revVars, statVars, raceVars>>
    \/ \E s \in Slots : saveRecording_getItem(s) /\ UNCHANGED <<recVars, playVars, revVars, statVars, raceVars>>
    \/ \E s \in Slots : saveRecording_setItem(s) /\ UNCHANGED <<recVars, playVars, revVars, statVars, raceVars>>
    \/ \E s \in Slots : saveRecording_verify(s) /\ UNCHANGED <<recVars, playVars, revVars, statVars, raceVars>>
    \/ \E s \in Slots : getRecordings_call(s) /\ UNCHANGED <<recVars, playVars, revVars, statVars, raceVars>>
    \/ \E s \in Slots : getRecordings_getItem(s) /\ UNCHANGED <<recVars, playVars, revVars, statVars, raceVars>>
    \/ \E s \in Slots, id \in StoreIds :
          deleteRecording_call(s, id) /\ UNCHANGED <<recVars, playVars, revVars, statVars, raceVars>>
    \/ \E s \in Slots : deleteRecording_getRecordings(s) /\ UNCHANGED <<recVars, playVars, revVars, statVars, raceVars>>
    \/ \E s \in Slots : deleteRecording_deleteAsync(s) /\ UNCHANGED <<recVars, playVars, revVars, statVars, raceVars>>
    \/ \E s \in Slots : deleteRecording_setItem(s) /\ UNCHANGED <<recVars, playVars, revVars, statVars, raceVars>>

\* The storage module alone: the Record screen stays as constructed.
InitStoreAlone == InitStore /\ InitRecord /\ InitPlay /\ InitReview /\ InitStats /\ InitRace

SpecStore == InitStoreAlone /\ [][NextStore]_vars

\* ------------------------------------------------ claims on the index
\* The stored collection as a successful getRecordings would list it now.
Stored == IF blob.kind = "json" THEN JSONparse(blob) ELSE <<>>

ListNow == GetRecordingsResult(blob)

DistinctCreatedAt(recs) ==
    \A i, j \in 1..Len(recs) : i # j => recs[i].createdAt # recs[j].createdAt

StrictlyDescending(recs) ==
    \A i \in 1..Len(recs) - 1 :
        GetTime(recs[i].createdAt) > GetTime(recs[i + 1].createdAt)

SameRecords(a, b) ==
    /\ Len(a) = Len(b)
    /\ {a[i] : i \in 1..Len(a)} = {b[i] : i \in 1..Len(b)}

\* The records that had the id when deleteRecording was called.
HadId(call) ==
    IF call.pre.kind = "json"
    THEN {r \in {JSONparse(call.pre)[i] : i \in 1..Len(call.pre.json)} : r.id = call.id}
    ELSE {}

\* C1: once deleteRecording(id) has completed without throwing on a record of
\* the stored collection, with no other storage call in flight and the file
\* delete not rejected, the list holds no record with that id and the audio
\* file of a record that had the id no longer exists.
C1_DeleteRemovesRecordAndFile ==
    (/\ last.kind = "delete" /\ ~last.threw /\ last.alone /\ ~last.fileFailed
     /\ HadId(last) # {})
    => /\ \A i \in 1..Len(ListNow) : ListNow[i].id # last.id
       /\ \E r \in HadId(last) : r.audioUri \notin files

\* C2: no two records returned by saveRecording, and no two records of the
\* stored collection, share an id.
C2_UniqueIds ==
    /\ \A r1, r2 \in returned : r1 # r2 => r1.id # r2.id
    /\ \A i, j \in 1..Len(Stored) : i # j => Stored[i].id # Stored[j].id

\* C7: a list that getRecordings returns, when its createdAt values are
\* distinct, is in strictly descending createdAt order; it holds exactly the
\* records of the text it read, and, when every call so far was a save or a
\* list that ran alone and succeeded on an initially missing key, exactly the
\* records the saves returned.
C7_ListDescending ==
    last.kind = "get" =>
        /\ DistinctCreatedAt(last.result) => StrictlyDescending(last.result)
        /\ (last.alone /\ last.readKind = "json") => SameRecords(last.result, Stored)
        /\ clean => {last.result[i] : i \in 1..Len(last.result)} = returned

\* The case of C7: a list of two records that sit oldest first in the stored
\* text.
C7_Witness ==
    /\ last.kind = "get" /\ last.alone /\ clean = FALSE
    /\ Len(last.result) = 2
    /\ DistinctCreatedAt(last.result)
    /\ ~StrictlyDescending(Stored)
    /\ StrictlyDescending(last.result)

\* C8: getRecordings returns the empty list, and does not throw, when the key
\* is missing, when its text does not parse and when the read is rejected.
C8_ListLenient ==
    (last.kind = "get" /\ last.readKind \in {"null", "corrupt", "rejected"})
    => (last.result = <<>> /\ ~last.threw)

\* The case of C8: a list taken from a text that does not parse.
C8_Witness ==
    last.kind = "get" /\ last.readKind = "corrupt" /\ last.result = <<>> /\ ~last.threw

\* ---------------------------------------------------------------------
\* Claims on the Record screen
\* ---------------------------------------------------------------------

\* The captures: the Audio.Recording objects started and not yet stopped.
Captures == {h \in HandleIds : handles[h] = "recording"}

\* The steps of stop() that C6 names.
StopSteps == {"stopAndUnload", "copy", "deleteTemp", "load", "getStatus", "unload"}

\* C5: at most one capture, an Audio.Recording started and not yet stopped,
\* exists at any time; a start() invoked while an earlier start() is still in
\* flight does not begin a second one.
C5_AtMostOneCapture == Cardinality(Captures) <= 1

\* C6: when a step of a stop() that ran with no other call in flight has
\* failed, the session is Idle once stop() has settled: the recording handle
\* is cleared, the tick is not running, the busy flag is false, and, unless
\* the failure was absorbed by the copy fallback, an error has been shown.
C6_StopEndsIdle ==
    (lastProc.kind = "stop" /\ lastProc.alone /\ lastProc.failed \in StopSteps)
        => /\ recording = 0
           /\ interval = 0
           /\ ~isLoading
           /\ (lastProc.failed \notin {"copy", "deleteTemp"}
                  => alerts["Stop Failed"] >= 1)

\* ---------------------------------------------------------------------
\* Claims on the Review screen's playback
\* ---------------------------------------------------------------------

\* C4: when the audio has been initialized again, for a new audioUri, while
\* the state held a sound, then once that initialization has finished and
\* nothing is in flight, the sound held before has been unloaded and the new
\* one is loaded.
C4_ReinitUnloadsPrevious ==
    (/\ mounted /\ AllPlaysIdle
     /\ lastPlay.kind = "initializeAudio" /\ lastPlay.failed = "none"
     /\ lastPlay.prev # 0)
        => /\ sounds[lastPlay.prev].state = "unloaded"
           /\ sounds[lastPlay.snd].state = "loaded"

\* The toggles C9 is about: run with no other call in flight, on a loaded
\* sound reported as not playing, and settled without a rejection.
ToggledToPlay ==
    /\ lastPlay.kind = "togglePlayPause"
    /\ lastPlay.alone
    /\ lastPlay.failed = "none"
    /\ ~lastPlay.status.isPlaying

\* C9: such a toggle ends in Playing; when the primitive reported
\* didJustFinish or a position at or past the duration minus 100 ms, the
\* position was set to 0 and the playback started from 0; otherwise no seek
\* was issued and the playback started from the reported position.
C9_ToggleReplaysFromStart ==
    ToggledToPlay =>
        /\ lastPlay.playingAfter
        /\ IF \/ lastPlay.status.didJustFinish
              \/ lastPlay.status.positionMillis
                     >= lastPlay.status.durationMillis - ReplayMargin
           THEN lastPlay.sought /\ lastPlay.startedFrom = 0
           ELSE ~lastPlay.sought
                /\ lastPlay.startedFrom = lastPlay.status.positionMillis

\* A toggle on a track paused exactly 100 ms before its end has replayed it,
\* after one paused earlier was resumed.
C9_Witness ==
    /\ ToggledToPlay
    /\ ~lastPlay.status.didJustFinish
    /\ lastPlay.status.positionMillis = SoundDuration - ReplayMargin
    /\ lastPlay.sought
    /\ lastPlay.startedFrom = 0

\* ---------------------------------------------------------------------
\* Claims on the Review screen's workflow
\* ---------------------------------------------------------------------

\* C3: no two records of the stored collection have the same audioUri,
\* whatever presses the Review screen of one capture goes through.
C3_OneRecordPerAudio ==
    \A i, j \in 1..Len(Stored) :
        i # j => Stored[i].audioUri # Stored[j].audioUri

\* C10: when an extraction settles on the mounted screen, the list of points
\* it leaves is exactly the array of the answer when the extraction
\* succeeded, and the list as it was when it failed (HTTP error, ok false,
\* no array).
C10_ExtractionReplaces ==
    (lastExtract.kind = "extract" /\ lastExtract.live)
        => lastExtract.after =
              IF lastExtract.outcome = "ok"
              THEN lastExtract.response
              ELSE lastExtract.before

\* An extraction answering [c] has settled on a list that was [a, b].
C10_Witness ==
    /\ lastExtract.kind = "extract" /\ lastExtract.live
    /\ lastExtract.outcome = "ok"
    /\ lastExtract.before = <<"a", "b">>
    /\ lastExtract.response = <<"c">>
    /\ lastExtract.after = <<"c">>
    /\ actionablePoints = <<"c">>

\* C11: when the Delete of the confirmation is pressed on a screen that was
\* opened without a stored result (an unsaved recording), the point is no
\* longer in the list, the other points of the list are kept in their order
\* (when the list had not changed since the alert was shown), and no call to
\* the stored collection is made.
C11_UnsavedDeleteIsLocal ==
    (lastDelete.kind = "deletePoint" /\ ~lastDelete.saved /\ lastDelete.live) =>
        /\ lastDelete.pointId \notin PointIds(lastDelete.after)
        /\ lastDelete.captured = lastDelete.before =>
               lastDelete.after =
                   FilterOutPoint(lastDelete.before, lastDelete.pointId)
        /\ ~lastDelete.storage

C11_Witness ==
    /\ lastDelete.kind = "deletePoint" /\ ~lastDelete.saved /\ lastDelete.live
    /\ lastDelete.before = <<"a", "b">>
    /\ lastDelete.after = <<"a">>
    /\ currentServerResult.set

\* C15: once a save has succeeded, the user's statistics row exists, counts
\* at least that recording and holds at least its duration.
C15_SaveUpdatesStats ==
    (last.kind = "save" /\ ~last.threw) =>
        /\ userStats.exists
        /\ userStats.recording_count >= 1
        /\ userStats.total_time_recorded_ms >= last.result[1].audioDuration

\* The records a stored text holds.
RecordsOf(text) ==
    IF text.kind = "json"
    THEN {JSONparse(text)[i] : i \in 1..Len(text.json)}
    ELSE {}

\* C16: once a deleteRecording(id) that ran with no other storage call in
\* flight has settled, every record with another id that was stored when it
\* was called is still stored, whatever its read came to; and when its read
\* was rejected, the call threw.
C16_DeleteKeepsOthers ==
    (last.kind = "delete" /\ last.alone) =>
        /\ \A r \in RecordsOf(last.pre) : r.id # last.id => r \in RecordsOf(blob)
        /\ last.readKind = "rejected" => last.threw

\* C17: a saveRecording that ran with no other storage call in flight and
\* read a text that does not parse does not throw, returns its record, and
\* leaves a stored collection of exactly that record.
C17_SaveOnMalformedSucceeds ==
    (last.kind = "save" /\ last.alone /\ last.readKind = "corrupt") =>
        /\ ~last.threw
        /\ last.result # <<>>
        /\ Stored = last.result

\* C19: a stop() that ran alone and opened the Review screen handed on the
\* temporary locator if its copy was rejected; otherwise it handed on the
\* permanent locator and the temporary file is gone.
C19_StopHandsOnPermanent ==
    (lastProc.kind = "stop" /\ lastProc.navigated /\ lastProc.alone) =>
        LET nav == navs[Len(navs)]
            tempUri == TempUris[lastProc.rec]
        IN  IF lastProc.failed = "copy"
            THEN nav.audioUri = tempUri
            ELSE /\ nav.audioUri # tempUri
                 /\ nav.audioUri[1] = "recording"
                 /\ tempUri \notin files

\* C13: once the Review screen has left the stack and every call it made has
\* settled, no Sound it loaded is still loaded.
C13_NoSoundSurvivesTeardown ==
    (~mounted /\ instance > 0 /\ AllPlaysIdle) => LoadedSounds = {}

\* C12: a seekTo that settled without a rejection and with no other call in
\* flight left the sound playing exactly when it was playing as the seek read
\* its status, with isPlaying set if it was; and when a togglePlayPause
\* called after the seek paused the sound while the seek was in flight, the
\* seek left the sound paused and isPlaying clear.
C12_SeekKeepsPlayState ==
    (lastPlay.kind = "seekTo" /\ lastPlay.failed = "none") =>
        /\ lastPlay.alone =>
              /\ lastPlay.primitiveAfter = lastPlay.status.isPlaying
              /\ lastPlay.status.isPlaying => lastPlay.playingAfter
        /\ lastPlay.overtaken = "paused" =>
              ~lastPlay.primitiveAfter /\ ~lastPlay.playingAfter

\* C20: a playFrom that ran alone and settled without a rejection left the
\* sound playing and isPlaying set.
C20_PlayFromEndsPlaying ==
    (lastPlay.kind = "playFrom" /\ lastPlay.failed = "none" /\ lastPlay.alone) =>
        /\ lastPlay.primitiveAfter
        /\ lastPlay.playingAfter

\* C18: a saveRecording called by the Review screen that ran with no other
\* storage call in flight either throws, and the screen shows the 'Error'
\* alert, which is the case when its write is rejected; or it made exactly one
\* write, of its record followed by the records it had read, returns that
\* record with an id and a createdAt, the screen shows 'Success', and the
\* list getRecordings would return holds a record with the title, the
\* audioUri and the audioDuration given, a non-empty id and a createdAt.
C18_SavePrependsOnce ==
    (last.kind = "save" /\ last.alone) =>
        IF last.threw
        THEN /\ lastSave = "Error"
             /\ last.writes <= 1
             /\ last.writes = 0 => blob = last.pre \/ last.readKind = "rejected"
        ELSE /\ last.writes = 1 /\ last.prepended
             /\ lastSave = "Success"
             /\ Len(last.result) = 1
             /\ last.result[1].id # <<>>
             /\ last.result[1].createdAt \in {ToISOString(t) : t \in 0..MaxClock}
             /\ Stored = <<last.result[1]>> \o Previous(last.pre)
             /\ \E i \in 1..Len(ListNow) :
                   /\ ListNow[i].title = "t"
                   /\ ListNow[i].audioUri = audioUri
                   /\ ListNow[i].audioDuration = audioDuration
                   /\ ListNow[i].id # <<>>
                   /\ ListNow[i].createdAt \in {ToISOString(t) : t \in 0..MaxClock}

\* The case of C18: a save into a collection that held a record.
C18_Witness ==
    /\ last.kind = "save" /\ last.alone /\ ~last.threw
    /\ last.pre = JSONstringify(<<EarlierRecording>>)
    /\ Len(Stored) = 2
    /\ Stored[1] = last.result[1]
    /\ Stored[2] = EarlierRecording
    /\ lastSave = "Success"

\* What a writer stores when it runs by itself on the text it read.
WrittenAlone(op, read) ==
    LET stored == IF read.kind = "json" THEN JSONparse(read) ELSE <<>>
        listed == SortRecordings(stored)
        hits == {i \in 1..Len(listed) :
                    /\ listed[i].audioUri = op.key[1]
                    /\ listed[i].audioDuration = op.key[2]}
    IN  CASE op.kind = "save" -> JSONstringify(<<op.rec[1]>> \o stored)
          [] op.kind = "delete" ->
                JSONstringify(SelectSeq(listed, LAMBDA r : r.id # op.id))
          [] op.kind = "points" ->
                JSONstringify(
                    [i \in 1..Len(listed) |->
                        IF i \in hits /\ \A j \in hits : i <= j
                        THEN [listed[i] EXCEPT !.actionablePoints =
                                 IF op.points = <<>> THEN Undefined
                                 ELSE Arr(op.points)]
                        ELSE listed[i]])

\* C14: when a call writes the collection after another call has written it,
\* both having read the same text before either write, the stored text is
\* what the later writer stores when it runs by itself on the text it read:
\* nothing of the earlier write is in it, and nothing is merged.
C14_LaterWriterWins ==
    (/\ race.last.raced
     /\ race.last.read = race.last.firstRead
     /\ race.last.read.kind \in {"null", "json"})
    => /\ race.last.wrote = WrittenAlone(race.last.op, race.last.read)
       /\ (\A s \in Slots : Idle(s)) => blob = race.last.wrote

\* The case of C14: a saveRecording wrote first, a deletion of a point wrote
\* after it, and the saved record is not in the collection.
C14_Witness ==
    /\ race.last.raced
    /\ race.last.read = race.last.firstRead
    /\ race.last.kind = "points" /\ race.last.firstKind = "save"
    /\ Len(JSONparse(race.last.firstWrote)) = 2
    /\ \A s \in Slots : Idle(s)
    /\ Len(Stored) = 1
    /\ Stored[1].actionablePoints = Arr(<<"b">>)

\* ---------------------------------------------------------------------
\* Claims on the intervals of the two screens
\* ---------------------------------------------------------------------

\* What C21 states of the Record screen: at most one elapsed-time interval is
\* running, and one is running only while the recording handle and the start
\* time are set.
ElapsedTickFollowsState ==
    /\ interval <= 1
    /\ interval = 1 => recording # 0 /\ recordingStartTimeMs # "null"

\* What C21 states of the Review screen with the sound of the state standing
\* for the loaded sound: at most one poll interval is running, and one is
\* running only while a sound is in the state and isPlaying is set.
PollFollowsState ==
    /\ polling <= 1
    /\ polling = 1 => mounted /\ sound # 0 /\ isPlaying

\* C21: at most one elapsed-time interval and at most one position-poll
\* interval are running; the elapsed-time interval runs only while the
\* recording handle and the start time are set, and the position-poll
\* interval only while the sound of the state is loaded and isPlaying is set.
C21_IntervalsFollowState ==
    /\ ElapsedTickFollowsState
    /\ polling <= 1
    /\ polling = 1 => Loaded(sound) /\ isPlaying

\* Since a poll observed the finish, no call of the screen has begun or
\* settled, and nothing but polls is in flight.
FinishObserved ==
    /\ lastPlay.kind = "finished"
    /\ \A q \in PlaySlots : plays[q].kind \in {"idle", "progress"}

\* What C22 states of the poll that observes the finish: when no other call
\* was in flight as it resolved, isPlaying is false, no interval runs and the
\* progress is 0.
PausedAfterFinish ==
    (FinishObserved /\ lastPlay.alone)
        => ~isPlaying /\ polling = 0 /\ audioProgress = 0

\* C22: once a poll has observed didJustFinish, isPlaying is false, no poll
\* interval runs and the progress is 0, and the polls that resolve after it
\* leave that so.
C22_FinishResetsProgress ==
    FinishObserved => ~isPlaying /\ polling = 0 /\ audioProgress = 0

\* ---------------------------------------------------------------------
\* Claims on a recording whose audio file is missing
\* ---------------------------------------------------------------------

\* The initializeAudio that the [audioUri] effect called for the audioUri of
\* the screen has settled.
InitializedForUri ==
    /\ mounted
    /\ \A p \in PlaySlots :
          ~(/\ plays[p].kind = "initializeAudio"
            /\ plays[p].inst = instance
            /\ plays[p].uri = audioUri)

\* No Audio.Sound was created for the audioUri of the screen.
NoSoundForUri == \A h \in SoundIds : sounds[h].uri # audioUri

\* What C23 states of a screen that held no sound and had no other call in
\* flight: right after initializeAudio found no file, no Sound was created,
\* the alert has been shown and the state holds no sound.
MissingFileOnFreshScreen ==
    (/\ lastPlay.kind = "initializeAudio" /\ lastPlay.failed = "missing"
     /\ lastPlay.prev = 0 /\ lastPlay.alone)
        => /\ NoSoundForUri
           /\ playAlerts["Error"] >= 1
           /\ sound = 0

\* C23: once initializeAudio has run for an audioUri that has no file, no
\* Sound was created for it, the 'Error' alert has been shown, and the state
\* holds no sound, so that togglePlayPause, seekTo and playFrom return at
\* their first line.
C23_MissingFileStaysUnloaded ==
    (InitializedForUri /\ audioUri \notin files)
        => /\ NoSoundForUri
           /\ playAlerts["Error"] >= 1
           /\ sound = 0

\* The Review screen is open on a record of the History screen whose audio
\* file is missing, and no button of the screen has been pressed.
OpenedWithoutFile ==
    /\ mounted
    /\ hist.opened # <<>>
    /\ hist.opened[1].audioUri \notin files
    /\ revTaps = 0

\* C24: while the Review screen is open on a record of the History screen
\* whose audio file is missing and nothing has been pressed on it, the
\* screen was opened with the record's own locator, the stored text is the
\* one the History screen loaded, with the record, its transcription and its
\* points in it, no file was removed and no storage call was made.
C24_OpeningKeepsCollection ==
    OpenedWithoutFile
        => /\ audioUri = hist.opened[1].audioUri
           /\ blob = HistoryBlob
           /\ \E i \in 1..Len(Stored) :
                 /\ Stored[i] = hist.opened[1]
                 /\ Stored[i].transcription = Obj("text")
                 /\ Stored[i].actionablePoints = Arr(<<"c">>)
           /\ files = AudioUris
           /\ calls = 0
           /\ \A s \in Slots : Idle(s)

\* The case of C24: initializeAudio has found no file and shown its alert.
C24_Witness ==
    /\ OpenedWithoutFile
    /\ hist.opened[1] = LostRecording
    /\ lastPlay.kind = "initializeAudio" /\ lastPlay.failed = "missing"
    /\ playAlerts["Error"] = 1
    /\ sound = 0

\* ---------------------------------------------------------------------
\* Claims on the points of a saved recording
\* ---------------------------------------------------------------------

\* The records of the collection with the audioUri and audioDuration of the
\* screen.
PersistedHere ==
    {i \in 1..Len(Stored) :
        /\ Stored[i].audioUri = audioUri
        /\ Stored[i].audioDuration = audioDuration}

PersistedPoints(i) ==
    IF Stored[i].actionablePoints.k = "array"
    THEN PointIds(Stored[i].actionablePoints.v)
    ELSE {}

\* C25: when the Delete of a point was confirmed on a mounted screen while
\* the collection held a record with the screen's audioUri and audioDuration,
\* then, once no storage call is in flight, the point is neither in the list
\* of the screen nor in that record, and no 'Error' alert was shown.
C25_DeleteReachesPersisted ==
    (/\ lastDelete.kind = "deletePoint" /\ lastDelete.live
     /\ lastDelete.persisted
     /\ \A s \in Slots : Idle(s))
        => /\ lastDelete.pointId \notin PointIds(lastDelete.after)
           /\ \A i \in PersistedHere :
                 lastDelete.pointId \notin PersistedPoints(i)

\* What C25 states of a screen opened from the History screen, as long as no
\* storage call has failed or overlapped another.
SavedDeleteReachesPersisted ==
    (lastDelete.saved /\ clean /\ last.readKind # "rejected")
        => C25_DeleteReachesPersisted

\* The records of the stored text, as they were written.
WrittenRecords ==
    IF Parseable(blob) THEN {blob.json[i] : i \in 1..Len(blob.json)} ELSE {}

\* C26: no record of the stored collection holds an empty actionablePoints
\* list: a save with no points and the deletion of the last point of a
\* persisted recording both leave the field out of the record.
C26_EmptyPointsAbsent ==
    \A r \in WrittenRecords : r.actionablePoints # Arr(<<>>)

\* The last point of a recording opened from the History screen was deleted
\* and written back: the record is stored without the field.
C26_LastPointWrittenBack ==
    /\ lastDelete.kind = "deletePoint" /\ lastDelete.saved
    /\ Len(lastDelete.before) = 1 /\ lastDelete.after = <<>>
    /\ last.kind = "points" /\ last.writes = 1
    /\ PersistedHere # {}
    /\ \A i \in PersistedHere : blob.json[i].actionablePoints = Absent

\* A recording without points was saved from the Review screen: the record
\* is stored without the field.
C26_SavedWithoutPoints ==
    /\ lastSave = "Success" /\ actionablePoints = <<>>
    /\ last.kind = "save" /\ ~last.threw
    /\ \E r \in WrittenRecords :
          r.id = last.result[1].id /\ r.actionablePoints = Absent

\* The step in which the start() of procs[p] is refused the permission.
Refused(p) ==
    /\ procs[p].kind = "start" /\ procs[p].pc = "permission"
    /\ procs'[p].kind = "idle"
    /\ lastProc'.failed = "denied"

\* C27: when start() is refused the microphone permission, the call ends
\* there: no Recording is created, the recording and its start time stay
\* as they were (null when no other call was in flight), the number of
\* intervals does not change, 'Microphone Required' is shown once and no
\* other alert, and no request is made again.
C27_RefusedStaysIdle ==
    [][\A p \in ProcSlots : Refused(p) =>
          /\ handles' = handles /\ recorderExists' = recorderExists
          /\ recording' = recording
          /\ recordingStartTimeMs' = recordingStartTimeMs
          /\ interval' = interval
          /\ files' = files
          /\ alerts' = [alerts EXCEPT !["Microphone Required"] = @ + 1]
          /\ procs' = [procs EXCEPT ![p] = IdleProc]
          /\ (lastProc'.alone =>
                 /\ recording' = 0 /\ recordingStartTimeMs' = "null"
                 /\ interval' = 0)]_vars

\* A start() that was the only call in flight was refused the permission.
C27_Refused ==
    /\ lastProc.kind = "start" /\ lastProc.failed = "denied" /\ lastProc.alone
    /\ alerts["Microphone Required"] = 1
    /\ recording = 0 /\ interval = 0
    /\ \A h \in HandleIds : handles[h] = "none"

\* C28: a deleteRecording that ran with no other storage call in flight and
\* threw has not removed the audio file of the record it found, and that
\* record is still stored.
C28_DeleteAllOrNothing ==
    [][\A s \in Slots :
          (/\ ops[s].kind = "delete" /\ ops[s].alone
           /\ ops'[s].kind = "idle" /\ last'.threw)
          => /\ ~ops[s].removed
             /\ ops[s].rec # <<>> => ops[s].rec[1] \in RecordsOf(blob')]_vars

\* The Recordings that stopAndUnloadAsync was answered for.
StoppedCaptures == {h \in HandleIds : handles[h] = "stopped"}

PermanentFiles == {f \in files : f[1] = "recording"}

\* C29: however many times stop() is called on a capture, the capture is
\* finalized at most once: there are no more permanent files, and no more
\* navigations to the Review screen, than captures that were stopped.
C29_FinalizedAtMostOnce ==
    /\ Len(navs) <= Cardinality(StoppedCaptures)
    /\ Cardinality(PermanentFiles) <= Cardinality(StoppedCaptures)

\* The Review screen on top was opened from the History screen.
Reopened == mounted /\ hist.opened # <<>>

\* C30: every stored record has a transcription; a Review screen opened from
\* the History screen takes its recording as saved, has no title input, no
\* upload of its own and no save in flight; and from the first opening from
\* the History screen on, no step adds a record to the stored collection.
C30_ReopeningCreatesNoRecord ==
    /\ [](\A r \in RecordsOf(blob) : r.transcription.k = "object")
    /\ [](Reopened =>
            /\ isSavedRecording
            /\ ~showTitleInput
            /\ \A p \in RevSlots :
                  revs[p].kind = "upload" => revs[p].inst # instance
            /\ \A s \in Slots : ops[s].kind # "save")
    /\ [][hist.opened # <<>> => Len(Stored') <= Len(Stored)]_vars

\* A record that was saved from the Review screen after an upload is open
\* again, from the History screen, and a button of the screen was pressed.
C30_SavedRecordReopened ==
    /\ Reopened /\ isSavedRecording
    /\ hist.opened[1] \in RecordsOf(blob)
    /\ hist.opened[1].transcription = Obj("text")
    /\ lastDelete.kind = "deletePoint"

====
